---- MODULE Spec2Model ----
(***************************************************************************)
(* A model of the fedwatch ml_analysis package: the panel kept by          *)
(* LiquidityMLAnalyzer, its feature engineering, the chronological split,  *)
(* the shared StandardScaler, the per-symbol model registry and the        *)
(* backtest, and the lag / velocity features of                            *)
(* EnhancedCorrelationAnalysis.                                            *)
(*                                                                         *)
(* Representation.  A DataFrame is a record                                *)
(*   [names |-> column names in column order,                              *)
(*    cols  |-> the columns, in that order, each a sequence of cells,      *)
(*    index |-> the pandas row labels]                                     *)
(* and a cell is [ok |-> BOOLEAN, v |-> value]; ok = FALSE is NaN.         *)
(* Numbers are integers.  Columns that pandas holds as fractions are held  *)
(* scaled by a per-column constant, stated at the operator that builds     *)
(* them; probabilities are held in percent.                                *)
(***************************************************************************)
EXTENDS Integers, Sequences, FiniteSets, TLC

\* ------------------------------------------------------------ bounds
\* rows of history that precede the enumerated rows of the panel
WarmupRows == 49
\* enumerated rows per market symbol
MaxRowsPerSymbol == 3

\* ------------------------------------------------------------- cells
NaN == [ok |-> FALSE, v |-> 0]
Num(x) == [ok |-> TRUE, v |-> x]

Range(s) == {s[i] : i \in 1..Len(s)}

\* a sequence given by a rule, as the tuple of its values
Tuple(s) == s \o <<>>

\* the sum of s[lo..hi], halving the range
RECURSIVE SumRange(_, _, _)
SumRange(s, lo, hi) ==
  IF lo > hi THEN 0
  ELSE IF lo = hi THEN s[lo]
  ELSE LET mid == (lo + hi) \div 2
       IN  SumRange(s, lo, mid) + SumRange(s, mid + 1, hi)

SumSeq(s) == SumRange(s, 1, Len(s))

\* the positions lo..hi of a boolean mask that are TRUE, ascending
RECURSIVE MaskRange(_, _, _)
MaskRange(mask, lo, hi) ==
  IF lo > hi THEN <<>>
  ELSE IF lo = hi THEN (IF mask[lo] THEN <<lo>> ELSE <<>>)
  ELSE LET mid == (lo + hi) \div 2
       IN  MaskRange(mask, lo, mid) \o MaskRange(mask, mid + 1, hi)

MaskAll(mask) == MaskRange(mask, 1, Len(mask))

\* the positions of a boolean mask that are TRUE, ascending
MaskIdx(mask) == MaskAll(Tuple(mask))

\* -------------------------------------------------------- data frames
NRows(df) == Len(df.index)

HasCol(df, c) == c \in Range(df.names)

\* df[c]
Col(df, c) == df.cols[CHOOSE i \in 1..Len(df.names) : df.names[i] = c]

\* df[c] = vals : a new column goes last, an existing one keeps its place
SetCol(df, c, vals) ==
  IF HasCol(df, c)
  THEN [df EXCEPT !.cols[CHOOSE i \in 1..Len(df.names) : df.names[i] = c] = Tuple(vals)]
  ELSE [names |-> Append(df.names, c),
        cols  |-> Append(df.cols, Tuple(vals)),
        index |-> df.index]

\* a column to assign: its name and its values
NewCol(name, vals) == [name |-> name, vals |-> Tuple(vals)]

IsAdded(adds, c) == \E k \in 1..Len(adds) : adds[k].name = c

\* the values the last assignment to c holds
LastAdded(adds, c) ==
  adds[CHOOSE k \in 1..Len(adds) :
         /\ adds[k].name = c
         /\ \A j \in (k + 1)..Len(adds) : adds[j].name # c].vals

\* the assignments that create a column, in order
Fresh(df, adds) ==
  MaskIdx([k \in 1..Len(adds) |->
             /\ ~HasCol(df, adds[k].name)
             /\ \A j \in 1..(k - 1) : adds[j].name # adds[k].name])

AddFresh(df, adds, fresh) ==
  [names |-> df.names \o [k \in 1..Len(fresh) |-> adds[fresh[k]].name],
   cols  |-> [i \in 1..Len(df.names) |->
                IF IsAdded(adds, df.names[i])
                THEN LastAdded(adds, df.names[i]) ELSE df.cols[i]]
             \o [k \in 1..Len(fresh) |-> LastAdded(adds, adds[fresh[k]].name)],
   index |-> df.index]

\* df[name] = vals for each of adds in turn: a new column goes last, an existing
\* one keeps its place
AddCols(df, adds) == AddFresh(df, adds, Fresh(df, adds))

\* df[mask] / df.iloc[idx] : the rows at positions idx, in that order
TakeRows(df, idx) ==
  [names |-> df.names,
   cols  |-> Tuple([n \in 1..Len(df.names) |->
                      Tuple([j \in 1..Len(idx) |-> df.cols[n][idx[j]]])]),
   index |-> Tuple([j \in 1..Len(idx) |-> df.index[idx[j]]])]

\* df.dropna() : rows with a NaN in any column are dropped
DropNa(df) ==
  TakeRows(df, MaskIdx([i \in 1..NRows(df) |->
                          \A n \in 1..Len(df.names) : df.cols[n][i].ok]))

\* df[df['symbol'] == symbol]
FilterSymbol(df, symbol) ==
  TakeRows(df, MaskIdx([i \in 1..NRows(df) |->
                          Col(df, "symbol")[i].ok /\ Col(df, "symbol")[i].v = symbol]))

\* --------------------------------------------------- series operators
\* a shift that reads k rows ahead instead of k rows back
Shift_Ahead(s, k) ==
  Tuple([i \in 1..Len(s) |-> IF i + k <= Len(s) THEN s[i + k] ELSE NaN])

\* Series.shift(k)
Shift(s, k) == Tuple([i \in 1..Len(s) |-> IF i > k THEN s[i - k] ELSE NaN])

\* Series.diff(k)
Diff(s, k) ==
  Tuple([i \in 1..Len(s) |->
           IF i > k /\ s[i].ok /\ s[i - k].ok THEN Num(s[i].v - s[i - k].v) ELSE NaN])

\* the last defined position at or before i, 0 when there is none
RECURSIVE LastValid(_, _)
LastValid(s, i) ==
  IF i = 0 THEN 0 ELSE IF s[i].ok THEN i ELSE LastValid(s, i - 1)

PadFrom(s, j) == IF j = 0 THEN NaN ELSE s[j]

\* Series.ffill(), the padding pct_change applies before it divides
Ffill(s) == Tuple([i \in 1..Len(s) |-> PadFrom(s, LastValid(s, i))])

\* (p[i] / p[i-k] - 1) * 100 on a padded series.  Levels are positive magnitudes;
\* the quotient is exact for the level values the panels hold.
Change100(p, k) ==
  Tuple([i \in 1..Len(p) |->
           IF i > k /\ p[i].ok /\ p[i - k].ok /\ p[i - k].v # 0
           THEN Num((100 * (p[i].v - p[i - k].v)) \div p[i - k].v)
           ELSE NaN])

\* Series.pct_change(k) * 100
PctChange100(s, k) == Change100(Ffill(s), k)

\* the sum of the values, and of their squares, of the cells s[lo..hi]
RECURSIVE SumV(_, _, _)
SumV(s, lo, hi) ==
  IF lo = hi THEN s[lo].v
  ELSE IF lo + 1 = hi THEN s[lo].v + s[hi].v
  ELSE SumV(s, lo, (lo + hi) \div 2) + SumV(s, (lo + hi) \div 2 + 1, hi)

RECURSIVE SumSq(_, _, _)
SumSq(s, lo, hi) ==
  IF lo = hi THEN s[lo].v * s[lo].v
  ELSE IF lo + 1 = hi THEN s[lo].v * s[lo].v + s[hi].v * s[hi].v
  ELSE SumSq(s, lo, (lo + hi) \div 2) + SumSq(s, (lo + hi) \div 2 + 1, hi)

\* the window of w rows that ends at row i is complete and free of NaN
WindowOk(s, i, w) == i >= w /\ \A j \in (i - w + 1)..i : s[j].ok

\* Series.rolling(w).mean(), held as the window sum (mean * w)
RollingMean(s, w) ==
  Tuple([i \in 1..Len(s) |->
           IF WindowOk(s, i, w) THEN Num(SumV(s, i - w + 1, i)) ELSE NaN])

\* w * sum(x^2) - sum(x)^2
VarNum(w, sumsq, sum) == w * sumsq - sum * sum

\* Series.rolling(w).std(), held as w*sum(x^2) - sum(x)^2 (std^2 * w*(w-1))
RollingStd(s, w) ==
  Tuple([i \in 1..Len(s) |->
           IF WindowOk(s, i, w)
           THEN Num(VarNum(w, SumSq(s, i - w + 1, i), SumV(s, i - w + 1, i)))
           ELSE NaN])

\* `pat in name` on column names
Contains(name, pat) ==
  \E i \in 1..(Len(name) - Len(pat) + 1) : SubSeq(name, i, i + Len(pat) - 1) = pat

ContainsAny(name, pats) == \E p \in Range(pats) : Contains(name, p)

\* [c for c in names if keep(c)], for a set of kept names
RECURSIVE SelectNames(_, _)
SelectNames(names, kept) ==
  IF names = <<>> THEN <<>>
  ELSE (IF Head(names) \in kept THEN <<Head(names)>> ELSE <<>>)
       \o SelectNames(Tail(names), kept)

\* ------------------------------------- LiquidityMLAnalyzer.engineer_features
\* Every column the method assigns is computed from columns of the panel, none from
\* a column an earlier step assigned under another step's name, so each step is
\* given as the columns it assigns and the frame is assembled once.
lag_periods == <<1, 5, 10, 20>>

liquidity_cols ==
  <<"net_liquidity", "tga_value", "rrp_value", "walcl_value", "auctions_value">>

LagStep(s, c) ==
  [k \in 1..Len(lag_periods) |->
     NewCol(c \o "_lag_" \o ToString(lag_periods[k]), Shift(s, lag_periods[k]))]

\* for col in cols: if col in df.columns: ...
RECURSIVE LagFeatures(_, _)
LagFeatures(df, cols) ==
  IF cols = <<>> THEN <<>>
  ELSE (IF HasCol(df, Head(cols)) THEN LagStep(Col(df, Head(cols)), Head(cols)) ELSE <<>>)
       \o LagFeatures(df, Tail(cols))

MovingAverageStep(s, c) ==
  << NewCol(c \o "_ma_5", RollingMean(s, 5)),
     NewCol(c \o "_ma_20", RollingMean(s, 20)),
     NewCol(c \o "_ma_50", RollingMean(s, 50)) >>

\* for col in cols: if col in df.columns: ...
RECURSIVE MovingAverages(_, _)
MovingAverages(df, cols) ==
  IF cols = <<>> THEN <<>>
  ELSE (IF HasCol(df, Head(cols)) THEN MovingAverageStep(Col(df, Head(cols)), Head(cols)) ELSE <<>>)
       \o MovingAverages(df, Tail(cols))

MomentumStep(m) ==
  << NewCol("net_liq_momentum", m), NewCol("net_liq_acceleration", Diff(m, 5)) >>

Momentum(df) ==
  IF HasCol(df, "net_liquidity")
  THEN MomentumStep(Diff(Col(df, "net_liquidity"), 5)) ELSE <<>>

VolatilityStep(close) ==
  << NewCol("price_volatility_20", RollingStd(close, 20)),
     NewCol("price_volatility_50", RollingStd(close, 50)) >>

Volatility(df) ==
  IF HasCol(df, "close") THEN VolatilityStep(Col(df, "close")) ELSE <<>>

\* df[c] > df[c].quantile(0.8) at row i, as 0/1.  With linear interpolation the
\* quantile lies in [sorted[f], sorted[f+1]) for f = floor(0.8*(n-1)), so a sample
\* value exceeds it iff more than 0.8*(n-1) of the defined values are below it.
StressFlag(s, i) ==
  LET vals == {j \in 1..Len(s) : s[j].ok}
      below == Cardinality({j \in vals : s[j].v < s[i].v})
  IN  IF s[i].ok /\ 5 * below > 4 * (Cardinality(vals) - 1) THEN 1 ELSE 0

FlowStep(tga, rrp) ==
  << NewCol("tga_rrp_ratio",
            [i \in 1..Len(tga) |->
               IF tga[i].ok /\ rrp[i].ok /\ rrp[i].v + 1 # 0
               THEN Num(tga[i].v \div (rrp[i].v + 1)) ELSE NaN]),
     NewCol("liquidity_stress", [i \in 1..Len(tga) |-> Num(StressFlag(tga, i))]) >>

FlowIndicators(df) ==
  IF HasCol(df, "tga_value") /\ HasCol(df, "rrp_value")
  THEN FlowStep(Col(df, "tga_value"), Col(df, "rrp_value")) ELSE <<>>

RateOfChangeStep(s, c) ==
  << NewCol(c \o "_roc_5", PctChange100(s, 5)),
     NewCol(c \o "_roc_20", PctChange100(s, 20)) >>

\* for col in cols: if col in df.columns: ...
RECURSIVE RateOfChange(_, _)
RateOfChange(df, cols) ==
  IF cols = <<>> THEN <<>>
  ELSE (IF HasCol(df, Head(cols)) THEN RateOfChangeStep(Col(df, Head(cols)), Head(cols)) ELSE <<>>)
       \o RateOfChange(df, Tail(cols))

\* (series > 0).astype(int) : NaN > 0 is False
TargetUp(s) == [i \in 1..Len(s) |-> Num(IF s[i].ok /\ s[i].v > 0 THEN 1 ELSE 0)]

TargetFromClose(wr) == << NewCol("weekly_return", wr), NewCol("target_up", TargetUp(wr)) >>

Target(df) ==
  IF HasCol(df, "weekly_return")
  THEN << NewCol("target_up", TargetUp(Col(df, "weekly_return"))) >>
  ELSE IF HasCol(df, "close")
       THEN TargetFromClose(PctChange100(Col(df, "close"), 5))
       ELSE <<>>

Engineered(df) ==
  AddCols(df, LagFeatures(df, liquidity_cols) \o MovingAverages(df, liquidity_cols)
                \o Momentum(df) \o Volatility(df) \o FlowIndicators(df)
                \o RateOfChange(df, liquidity_cols) \o Target(df))

engineer_features(panel) == DropNa(Engineered(panel))

\* --------------------------------------- LiquidityMLAnalyzer.prepare_ml_data
feature_patterns ==
  <<"tga_", "rrp_", "walcl_", "soma_", "auction", "net_liq", "liq_", "volatility">>

NotNaCount(s) == Cardinality({i \in 1..Len(s) : s[i].ok})

\* the symbol filter of prepare_ml_data: `if symbol and 'symbol' in df.columns`
PrepareFilter(df, symbol) ==
  IF symbol # "" /\ HasCol(df, "symbol") THEN FilterSymbol(df, symbol) ELSE df

\* feature columns: the naming convention, then the 70% non-missing rule
\* (notna().sum() > len(df) * 0.7, compared in tenths)
FeatureCols(df) ==
  SelectNames(df.names,
              {c \in Range(df.names) :
                 /\ ContainsAny(c, feature_patterns)
                 /\ 10 * NotNaCount(Col(df, c)) > 7 * NRows(df)})

\* X = df[feature_cols].values and y = df['target_up'].values at the rows keep,
\* given the feature columns fcols and the target column
TakeRowsXy(df, fc, fcols, target, keep) ==
  [keyerror |-> FALSE,
   X   |-> Tuple([j \in 1..Len(keep) |->
                    Tuple([f \in 1..Len(fc) |-> fcols[f][keep[j]].v])]),
   y   |-> Tuple([j \in 1..Len(keep) |-> target[keep[j]].v]),
   feature_cols |-> fc,
   src |-> Tuple([j \in 1..Len(keep) |-> df.index[keep[j]]])]

\* mask = ~np.isnan(X).any(axis=1) & ~np.isnan(y)
TakeXy(df, fc, fcols, target) ==
  TakeRowsXy(df, fc, fcols, target,
             MaskIdx([i \in 1..NRows(df) |->
                        /\ \A f \in 1..Len(fc) : fcols[f][i].ok
                        /\ target[i].ok]))

SelectXy(df, fc) ==
  IF ~HasCol(df, "target_up")
  THEN [keyerror |-> TRUE, X |-> <<>>, y |-> <<>>, feature_cols |-> fc, src |-> <<>>]
  ELSE TakeXy(df, fc, Tuple([f \in 1..Len(fc) |-> Col(df, fc[f])]),
              Col(df, "target_up"))

FeaturesXy(df) == SelectXy(df, FeatureCols(df))

\* X, y, feature_cols, given the frame df that self.engineer_features() returns
\* (line 150).  X is a sequence of rows, a row the sequence of its feature values; src is
\* the row label each row of X came from (numpy drops the labels).
\* keyerror: df['target_up'] is absent.
prepare_ml_data(df, symbol) == FeaturesXy(PrepareFilter(df, symbol))

\* ------------------------------------------------- the chronological split
\* the largest power of two that is <= x, for x >= 1
RECURSIVE Pow2Floor(_)
Pow2Floor(x) == IF x < 2 THEN 1 ELSE 2 * Pow2Floor(x \div 2)

\* int(n * 0.7) in IEEE double arithmetic.  The literal 0.7 is the double
\* 0.7 - 2^-52/5, so the exact product is 7n/10 - n*2^-52/5, rounded to the nearest
\* double (ties to even) and truncated.  When 10 does not divide n the product is at
\* least 1/10 from an integer and truncates to floor(7n/10).  For n = 10k the exact
\* product is 7k - 4k*2^-53; the half-spacing of doubles just below 7k is
\* Pow2Floor(7k)*2^-53, and 7k has an even significand, so the product rounds up to
\* 7k exactly when 4k <= Pow2Floor(7k) and otherwise down to the double below 7k.
SplitIdx(n) ==
  IF n % 10 # 0 \/ n = 0 THEN (7 * n) \div 10
  ELSE LET k == n \div 10
       IN  IF 4 * k <= Pow2Floor(7 * k) THEN 7 * k ELSE 7 * k - 1

\* ------------------------------------------------------- StandardScaler
\* mean_, var_ and n_samples_seen_ are held as n, the per-feature sums and the
\* per-feature sums of squares (mean = sum/n, var = sumsq/n - mean^2).  fit_src is
\* the labels of the rows the parameters were computed from.
Unfitted == [fitted |-> FALSE, n |-> 0, sum |-> <<>>, sumsq |-> <<>>, fit_src |-> <<>>]

NFeatures(X) == IF X = <<>> THEN 0 ELSE Len(X[1])

ColumnSum(X, f) == SumSeq(Tuple([i \in 1..Len(X) |-> X[i][f]]))
ColumnSumSq(X, f) == SumSeq(Tuple([i \in 1..Len(X) |-> X[i][f] * X[i][f]]))

\* StandardScaler.fit on a non-empty X, whose rows carry the labels src
FitScaler(X, src) ==
  [fitted  |-> TRUE,
   n       |-> Len(X),
   sum     |-> Tuple([f \in 1..NFeatures(X) |-> ColumnSum(X, f)]),
   sumsq   |-> Tuple([f \in 1..NFeatures(X) |-> ColumnSumSq(X, f)]),
   fit_src |-> src]

\* StandardScaler.transform raises on an unfitted scaler, on no rows and on a
\* different number of features
CanTransform(sc, X) ==
  sc.fitted /\ X # <<>> /\ NFeatures(X) = Len(sc.sum)

\* ------------------------------------------------------------- the panel
\* market symbols of the panel (two of the fetcher's markets), in fetch order
Markets == <<"SPX", "DJIA">>

\* the two rows a market alternates between: a week up and a week down
RowKinds ==
  << [net_liquidity |-> 2, close |-> 2, weekly_return |-> 2],
     [net_liquidity |-> 1, close |-> 1, weekly_return |-> -1] >>

\* n rows of a market that starts with the kind first
Rows(n, first) == [i \in 1..n |-> RowKinds[1 + ((i + first) % 2)]]

\* the rows of history: flat levels, weekly_return filled with 0
WarmupRow == [net_liquidity |-> 1, close |-> 1, weekly_return |-> 0]

\* pd.concat of the per-market frames, in market order, with a fresh RangeIndex:
\* the first h rows are the first market's.  date is the day number within the
\* market's own series.
Frame(rows, h) ==
  LET n == Len(rows)
  IN  [names |-> <<"date", "symbol", "close", "weekly_return", "net_liquidity">>,
       cols  |-> << [i \in 1..n |-> Num(IF i <= h THEN i ELSE i - h)],
                    [i \in 1..n |-> Num(IF i <= h THEN Markets[1] ELSE Markets[2])],
                    [i \in 1..n |-> Num(rows[i].close)],
                    [i \in 1..n |-> Num(rows[i].weekly_return)],
                    [i \in 1..n |-> Num(rows[i].net_liquidity)] >>,
       index |-> Tuple([i \in 1..n |-> i])]

Panel(first, last) ==
  Frame([i \in 1..WarmupRows |-> WarmupRow] \o first \o last, WarmupRows + Len(first))

\* ------------------------------------------------------------- the state
VARIABLES
  data,       \* the panel: LiquidityMLAnalyzer.data, AdvancedLiquidityAnalysis.data
  engineered, \* the frame self.engineer_features() returns.  The method computes
              \* it from a copy of self.data, which no operation assigns, so every
              \* call returns the frame held here.
  scaler,     \* LiquidityMLAnalyzer.scaler, the one StandardScaler object
  models,     \* LiquidityMLAnalyzer.models, symbol -> trained artifact
  tie_order,  \* the order in which this build's sort leaves rows of equal key:
              \* sort_values sorts with kind='quicksort', which is not stable
  run,        \* run_full_analysis: where the run is and what it holds
  ret         \* what the last call returned or raised

vars == <<data, engineered, scaler, models, tie_order, run, ret>>

\* the symbols calls are made with
SymbolArgs == Range(Markets)

\* the model_type calls are made with: every caller passes, or defaults to, 'rf'
ModelTypes == {"rf"}

\* class-1 probabilities a fitted forest can answer, in percent
Probas == {40, 60}

NoModel == [trained |-> FALSE]

NoCall == [op |-> "none", symbol |-> "", raised |-> FALSE]

\* run_full_analysis has not been called
NoRun == [pc |-> "none"]

Raised(op, symbol, error) ==
  [op |-> op, symbol |-> symbol, raised |-> TRUE, error |-> error]

\* LiquidityMLAnalyzer.__init__ and AdvancedLiquidityAnalysis.__init__ on a panel
\* orders of equal keys a sort can leave: as found, or reversed
TieOrders == <<"kept", "reversed">>

\* the analyzers on a panel, in a build whose sort orders equal keys by ties
Built(panel, ties) ==
  /\ data = panel
  /\ engineered = engineer_features(panel)
  /\ scaler = Unfitted
  /\ models = [s \in SymbolArgs |-> NoModel]
  /\ tie_order = ties
  /\ run = NoRun
  /\ ret = NoCall

Construct(panel) == Built(panel, TieOrders[1])

\* the analyzers on a merged panel of the two markets
Init ==
  \E a \in 0..MaxRowsPerSymbol, b \in 0..MaxRowsPerSymbol, p \in 1..2, q \in 1..2 :
    Construct(Panel(Rows(a, p), Rows(b, q)))

\* ------------------------------------------------------- the classifier
\* RandomForestClassifier(min_samples_split=50) fitted on fewer than 50 rows: no
\* node may split, every tree is a single leaf, and the forest answers one and the
\* same class-1 probability, leaf, for every row.  fit_src is the labels of the
\* rows it was fitted on.
Fit(model_type, fit_src, y_train, leaf) ==
  [kind |-> model_type, fit_src |-> fit_src, classes |-> Range(y_train), leaf |-> leaf]

\* model.predict_proba(X)[:, 1]
predict_proba(model, X) == Tuple([i \in 1..Len(X) |-> model.leaf])

\* model.predict(X): class 1 iff its probability is the larger one
predict(model, X) == Tuple([i \in 1..Len(X) |-> IF model.leaf > 50 THEN 1 ELSE 0])

\* ---------------------------------------- LiquidityMLAnalyzer.train_model
\* the rows the split sends to training and to test
TrainPart(s, split_idx) == SubSeq(s, 1, split_idx)
TestPart(s, split_idx) == SubSeq(s, split_idx + 1, Len(s))

Accuracy(y_pred, y_test) ==
  [correct |-> Cardinality({i \in 1..Len(y_test) : y_pred[i] = y_test[i]}),
   total   |-> Len(y_test)]

\* lines 209-240: the model is fitted, evaluated on the test rows and stored
TrainFit(sc, ms, symbol, model, X_test, y_test, test_src, feature_cols, split_idx) ==
  [scaler |-> sc,
   models |-> [ms EXCEPT ![symbol] =
                 [trained  |-> TRUE,
                  model    |-> model,
                  scaler   |-> "self.scaler",
                  features |-> feature_cols,
                  accuracy |-> Accuracy(predict(model, X_test), y_test)]],
   ret |-> [op |-> "train_model", symbol |-> symbol, raised |-> FALSE,
            accuracy      |-> Accuracy(predict(model, X_test), y_test),
            predictions   |-> predict(model, X_test),
            actuals       |-> y_test,
            probabilities |-> predict_proba(model, X_test),
            split_idx     |-> split_idx,
            test_src      |-> test_src]]

\* lines 205-213, given the scaler as fit_transform(X_train) leaves it
TrainScaled(fitted, ms, symbol, model_type, leaf, prep, split_idx) ==
  IF ~CanTransform(fitted, TestPart(prep.X, split_idx))
  THEN [scaler |-> fitted, models |-> ms,
        ret |-> Raised("train_model", symbol, "ValueError")]
  ELSE IF Cardinality(Range(TrainPart(prep.y, split_idx))) < 2
  \* one class in y_train: predict_proba has one column, [:, 1] is out of bounds
  THEN [scaler |-> fitted, models |-> ms,
        ret |-> Raised("train_model", symbol, "IndexError")]
  ELSE TrainFit(fitted, ms, symbol,
                Fit(model_type, TrainPart(prep.src, split_idx),
                    TrainPart(prep.y, split_idx), leaf),
                TestPart(prep.X, split_idx), TestPart(prep.y, split_idx),
                TestPart(prep.src, split_idx), prep.feature_cols, split_idx)

\* train_model with the scaler fitted on every usable row, test rows included
TrainSplit_FitAll(ms, symbol, model_type, leaf, prep, split_idx) ==
  IF split_idx = 0
  THEN [scaler |-> Unfitted, models |-> ms,
        ret |-> Raised("train_model", symbol, "ValueError")]
  ELSE TrainScaled(FitScaler(prep.X, prep.src), ms, symbol, model_type, leaf, prep, split_idx)

\* lines 200-206: the split, then self.scaler.fit_transform(X_train).  fit resets
\* the scaler before it rejects an empty array.
TrainSplit(ms, symbol, model_type, leaf, prep, split_idx) ==
  IF split_idx = 0
  THEN [scaler |-> Unfitted, models |-> ms,
        ret |-> Raised("train_model", symbol, "ValueError")]
  ELSE TrainScaled(FitScaler(TrainPart(prep.X, split_idx), TrainPart(prep.src, split_idx)),
                   ms, symbol, model_type, leaf, prep, split_idx)

\* one call of train_model on the analyzer (sc, ms), given what prepare_ml_data
\* returned and the leaf of the forest that fit builds
TrainModel(sc, ms, symbol, model_type, leaf, prep) ==
  IF prep.keyerror
  THEN [scaler |-> sc, models |-> ms, ret |-> Raised("train_model", symbol, "KeyError")]
  ELSE TrainSplit(ms, symbol, model_type, leaf, prep, SplitIdx(Len(prep.X)))

\* the analyzer after a call
Becomes(r) ==
  /\ scaler' = r.scaler
  /\ models' = r.models
  /\ ret' = r.ret
  /\ UNCHANGED <<data, engineered, tie_order, run>>

TrainCall(symbol, model_type, prep) ==
  \E leaf \in Probas :
    Becomes(TrainModel(scaler, models, symbol, model_type, leaf, prep))

train_model(symbol, model_type) ==
  TrainCall(symbol, model_type, prepare_ml_data(engineered, symbol))

\* ------------------------------------------------- cumulative values
\* (1 + r/100).cumprod() is held exactly: the value after k rows is the natural
\* number value * 100^k, written as its base-100 digits, least significant first.
\* Returns are whole percents above -100, so every factor 100 + r is positive.
Digit(a, i) == IF i <= Len(a) THEN a[i] ELSE 0

\* the digits of a[i..] * m + carry
RECURSIVE TimesFrom(_, _, _, _)
TimesFrom(a, m, i, carry) ==
  IF i > Len(a)
  THEN (IF carry = 0 THEN <<>>
        ELSE <<carry % 100>> \o TimesFrom(a, m, i, carry \div 100))
  ELSE <<(a[i] * m + carry) % 100>>
       \o TimesFrom(a, m, i + 1, (a[i] * m + carry) \div 100)

Times(a, m) == TimesFrom(a, m, 1, 0)

\* 100^k
Pow100(k) == [i \in 1..(k + 1) |-> IF i = k + 1 THEN 1 ELSE 0]

Less(a, b) ==
  \E i \in 1..(Len(a) + Len(b)) :
    /\ Digit(a, i) < Digit(b, i)
    /\ \A j \in (i + 1)..(Len(a) + Len(b)) : Digit(a, j) = Digit(b, j)

\* the digits of a[i..] - b[i..] - borrow, for a >= b
RECURSIVE MinusFrom(_, _, _, _)
MinusFrom(a, b, i, borrow) ==
  IF i > Len(a) THEN <<>>
  ELSE IF a[i] >= Digit(b, i) + borrow
       THEN <<a[i] - Digit(b, i) - borrow>> \o MinusFrom(a, b, i + 1, 0)
       ELSE <<100 + a[i] - Digit(b, i) - borrow>> \o MinusFrom(a, b, i + 1, 1)

\* a - b as a sign and the digits of |a - b|
Minus(a, b) ==
  IF Less(a, b) THEN [neg |-> TRUE, digits |-> MinusFrom(b, a, 1, 0)]
  ELSE [neg |-> FALSE, digits |-> MinusFrom(a, b, 1, 0)]

\* a factor that ignores the return
Factor_Flat(c) == 100

\* the factor a return cell contributes: cumprod skips a NaN
Factor(c) == IF c.ok THEN 100 + c.v ELSE 100

\* a running value that does not compound: each row's own factor alone
ProdTo_NoCompound(s, k) ==
  IF k = 0 THEN <<1>> ELSE Times(Pow100(k - 1), Factor(s[k]))

RECURSIVE ProdTo(_, _)
ProdTo(s, k) == IF k = 0 THEN <<1>> ELSE Times(ProdTo(s, k - 1), Factor(s[k]))

\* (1 + s / 100).cumprod()
CumProd(s) ==
  Tuple([k \in 1..Len(s) |-> IF s[k].ok THEN Num(ProdTo(s, k)) ELSE NaN])

\* ----------------------------------- LiquidityMLAnalyzer.backtest_strategy
\* backtest_strategy without its symbol filter
BacktestFilter_None(df, symbol) == df

\* the symbol filter of backtest_strategy: `if 'symbol' in df.columns`
BacktestFilter(df, symbol) ==
  IF HasCol(df, "symbol") THEN FilterSymbol(df, symbol) ELSE df

\* df.iloc[-k:] : the last k rows; -0 is 0, so k = 0 takes every row
LastRows(n, m) == Tuple([j \in 1..m |-> n - m + j])
Iloc(df, k) ==
  TakeRows(df, LastRows(NRows(df), IF k = 0 \/ k > NRows(df) THEN NRows(df) ELSE k))

\* >= in place of >
Prediction_AtLeast(predictions) ==
  Tuple([i \in 1..Len(predictions) |-> IF predictions[i] >= 50 THEN 1 ELSE 0])

\* (predictions > 0.5).astype(int)
Prediction(predictions) ==
  Tuple([i \in 1..Len(predictions) |-> IF predictions[i] > 50 THEN 1 ELSE 0])

\* prediction.map({1: 'LONG', 0: 'CASH'})
Signal(prediction) ==
  Tuple([i \in 1..Len(prediction) |-> IF prediction[i] = 1 THEN "LONG" ELSE "CASH"])

\* the realized return whatever the prediction
StrategyReturn_Always(prediction, weekly_return) == weekly_return

\* np.where(prediction == 1, weekly_return, 0)
StrategyReturn(prediction, weekly_return) ==
  Tuple([i \in 1..Len(prediction) |->
           IF prediction[i] = 1 THEN weekly_return[i] ELSE Num(0)])

Cells(s) == Tuple([i \in 1..Len(s) |-> Num(s[i])])

\* lines 259-271: the columns assigned to the backtest frame
BacktestCols(predictions, prediction, weekly_return, strategy_return) ==
  << NewCol("prediction_proba", Cells(predictions)),
     NewCol("prediction", Cells(prediction)),
     NewCol("signal", Cells(Signal(prediction))),
     NewCol("strategy_return", strategy_return),
     NewCol("cumulative_return", CumProd(weekly_return)),
     NewCol("cumulative_strategy", CumProd(strategy_return)) >>

BacktestAssign(backtest_df, predictions, prediction, weekly_return) ==
  AddCols(backtest_df,
          BacktestCols(predictions, prediction, weekly_return,
                       StrategyReturn(prediction, weekly_return)))

\* lines 258-271 on the rows of backtest_df, which are as many as predictions
BacktestRows(backtest_df, predictions) ==
  BacktestAssign(backtest_df, predictions, Prediction(predictions),
                 Col(backtest_df, "weekly_return"))

\* what assigning an array of one length to a frame of another raises
BacktestSized(backtest_df, predictions) ==
  IF NRows(backtest_df) # Len(predictions)
  THEN [raised |-> TRUE, error |-> "ValueError"]
  ELSE IF ~HasCol(backtest_df, "weekly_return")
  THEN [raised |-> TRUE, error |-> "KeyError"]
  ELSE [raised |-> FALSE, frame |-> BacktestRows(backtest_df, predictions)]

\* lines 258-271 on the symbol's rows df
BacktestFrame(df, predictions) == BacktestSized(Iloc(df, Len(predictions)), predictions)

\* the scaler an artifact holds: a reference to the analyzer's one scaler object
ScalerOf(artifact, sc) == IF artifact.scaler = "self.scaler" THEN sc ELSE artifact.scaler

BacktestReturn(sc, ms, symbol, prep, bt) ==
  [scaler |-> sc, models |-> ms,
   ret |-> IF bt.raised THEN Raised("backtest_strategy", symbol, bt.error)
           ELSE [op |-> "backtest_strategy", symbol |-> symbol, raised |-> FALSE,
                 backtest_df |-> bt.frame,
                 \* the label of the row of X each prediction was made from
                 X_src |-> prep.src]]

\* lines 247-273 on the analyzer (sc, ms), which holds a model for symbol
BacktestRun(sc, ms, symbol, df, prep) ==
  IF prep.keyerror
  THEN [scaler |-> sc, models |-> ms,
        ret |-> Raised("backtest_strategy", symbol, "KeyError")]
  ELSE IF ~ScalerOf(ms[symbol], sc).fitted
  THEN [scaler |-> sc, models |-> ms,
        ret |-> Raised("backtest_strategy", symbol, "NotFittedError")]
  ELSE IF ~CanTransform(ScalerOf(ms[symbol], sc), prep.X)
  THEN [scaler |-> sc, models |-> ms,
        ret |-> Raised("backtest_strategy", symbol, "ValueError")]
  ELSE BacktestReturn(sc, ms, symbol, prep,
                      BacktestFrame(BacktestFilter(df, symbol),
                                    predict_proba(ms[symbol].model, prep.X)))

\* the analyzer after the training of lines 244-245, r: an exception propagates
BacktestTrained(r, symbol, df, prep) ==
  IF r.ret.raised
  THEN [r EXCEPT !.ret = Raised("backtest_strategy", symbol, r.ret.error)]
  ELSE BacktestRun(r.scaler, r.models, symbol, df, prep)

\* one call of backtest_strategy on the analyzer (sc, ms); leaf is the leaf of the
\* forest that is fitted when no model is held for symbol
Backtest(sc, ms, symbol, leaf, df, prep) ==
  IF ms[symbol].trained
  THEN BacktestRun(sc, ms, symbol, df, prep)
  ELSE BacktestTrained(TrainModel(sc, ms, symbol, "rf", leaf, prep),
                       symbol, df, prep)

BacktestPrepared(symbol, df, prep) ==
  \E leaf \in Probas :
    Becomes(Backtest(scaler, models, symbol, leaf, df, prep))

backtest_strategy(symbol) ==
  BacktestPrepared(symbol, engineered, prepare_ml_data(engineered, symbol))

\* ---------------- AdvancedLiquidityAnalysis.predictive_model_comparison
comparison_patterns == <<"tga_", "rrp_", "walcl_", "soma_", "auction", "net_liq">>

comparison_models == <<"Random Forest", "Gradient Boosting", "Logistic Regression">>

\* df[names]
SubFrame(df, names) ==
  [names |-> names,
   cols  |-> Tuple([k \in 1..Len(names) |-> Col(df, names[k])]),
   index |-> df.index]

ComparisonFilter(df, symbol) ==
  IF HasCol(df, "symbol") THEN FilterSymbol(df, symbol) ELSE df

ComparisonCols(df) ==
  SelectNames(df.names, {c \in Range(df.names) : ContainsAny(c, comparison_patterns)})

\* X = df_clean[feature_cols].values, y = (df_clean['weekly_return'] > 0).astype(int)
ComparisonXy(df_clean, fc) ==
  [X   |-> Tuple([i \in 1..NRows(df_clean) |->
                    Tuple([f \in 1..Len(fc) |-> df_clean.cols[f][i].v])]),
   y   |-> Tuple([i \in 1..NRows(df_clean) |->
                    IF df_clean.cols[Len(fc) + 1][i].v > 0 THEN 1 ELSE 0]),
   src |-> df_clean.index]

ComparisonClean(df, fc) ==
  ComparisonXy(DropNa(SubFrame(df, Append(fc, "weekly_return"))), fc)

\* lines 125-149, given the local scaler as fit_transform(X_train) leaves it.
\* The three models are fitted in turn; a y_train of one class is refused by
\* GradientBoostingClassifier.  The metrics are the fitted models' and are not
\* part of the result held here.  split_idx, train_src, test_src and scaler are
\* the call's locals.
ComparisonScaled(symbol, fitted, xy, split_idx) ==
  IF ~CanTransform(fitted, TestPart(xy.X, split_idx))
     \/ Cardinality(Range(TrainPart(xy.y, split_idx))) < 2
  THEN Raised("predictive_model_comparison", symbol, "ValueError")
  ELSE [op |-> "predictive_model_comparison", symbol |-> symbol, raised |-> FALSE,
        results   |-> comparison_models,
        split_idx |-> split_idx,
        train_src |-> TrainPart(xy.src, split_idx),
        test_src  |-> TestPart(xy.src, split_idx),
        scaler    |-> fitted]

\* lines 119-127: the split, then a fresh StandardScaler is fitted on X_train
ComparisonSplit(symbol, xy, split_idx) ==
  IF split_idx = 0
  THEN Raised("predictive_model_comparison", symbol, "ValueError")
  ELSE ComparisonScaled(symbol,
                        FitScaler(TrainPart(xy.X, split_idx), TrainPart(xy.src, split_idx)),
                        xy, split_idx)

ComparisonRun(symbol, xy) == ComparisonSplit(symbol, xy, SplitIdx(Len(xy.X)))

Comparison(symbol, df) ==
  IF ~HasCol(df, "weekly_return")
  THEN Raised("predictive_model_comparison", symbol, "KeyError")
  ELSE ComparisonRun(symbol, ComparisonClean(df, ComparisonCols(df)))

predictive_model_comparison(symbol) ==
  /\ ret' = Comparison(symbol, ComparisonFilter(data, symbol))
  /\ UNCHANGED <<data, engineered, scaler, models, tie_order, run>>

\* ------------------------------------------------------------ the pipeline
Next ==
  \/ \E symbol \in SymbolArgs, model_type \in ModelTypes : train_model(symbol, model_type)
  \/ \E symbol \in SymbolArgs : backtest_strategy(symbol)
  \/ \E symbol \in SymbolArgs : predictive_model_comparison(symbol)

Spec == Init /\ [][Next]_vars

\* ------------------------------------------------- the split on long panels
\* rows of the longest single-market panel that is split
MaxSplitRows == 100

\* the analyzers on a panel of the first market alone
InitSplit ==
  \E n \in 0..MaxSplitRows, p \in 1..2 : Construct(Frame(Rows(n, p), n))

NextSplit == \E symbol \in SymbolArgs : predictive_model_comparison(symbol)

SpecSplit == InitSplit /\ [][NextSplit]_vars

\* --------------------------------------------- the backtest frame and its totals
\* rows of the longest enumerated backtest frame
MaxBacktestRows == 3

\* weekly returns of the enumerated rows, in percent
Returns == {-1, 0, 2}

\* predicted class-1 probabilities of the enumerated rows, in percent
ProbaGrid == {40, 50, 60}

\* the weekly returns of the five-week scenario
scenario_returns == <<2, -1, 3, -2, 1>>

ReturnRows(rs) ==
  [i \in 1..Len(rs) |-> [net_liquidity |-> 1, close |-> 1, weekly_return |-> rs[i]]]

InitBacktest ==
  \/ \E k \in 0..MaxBacktestRows : \E rs \in [1..k -> Returns] :
       Construct(Frame(ReturnRows(rs), k))
  \/ Construct(Frame(ReturnRows(scenario_returns), Len(scenario_returns)))

\* lines 258-273 of backtest_strategy on the rows df of a symbol and the
\* probabilities the model answers for them, applied once to the frame drawn
BacktestOf(symbol, df, predictions) ==
  BacktestReturn(scaler, models, symbol, [src |-> df.index],
                 BacktestFrame(df, predictions)).ret

backtest_rows(symbol) ==
  /\ ret = NoCall
  /\ \E predictions \in [1..NRows(BacktestFilter(data, symbol)) -> ProbaGrid] :
       ret' = BacktestOf(symbol, BacktestFilter(data, symbol), predictions)
  /\ UNCHANGED <<data, engineered, scaler, models, tie_order, run>>

\* lines 311-319 of plot_results: (cumulative.iloc[-1] - 1) * 100 for buy and hold
\* and for the strategy, and their difference, in percent.  With k rows a
\* cumulative value is scaled by 100^k, so the three are held exactly as a sign and
\* the digits of the percentage scaled by 100^(k-1).
Summary(symbol, k, cumulative_return, cumulative_strategy) ==
  [op |-> "plot_results", symbol |-> symbol, raised |-> FALSE, rows |-> k,
   total_return    |-> Minus(cumulative_return, Pow100(k)),
   strategy_return |-> Minus(cumulative_strategy, Pow100(k)),
   outperformance  |-> Minus(cumulative_strategy, cumulative_return)]

PlotResults(symbol, backtest_df) ==
  IF NRows(backtest_df) = 0
  THEN Raised("plot_results", symbol, "IndexError")
  ELSE Summary(symbol, NRows(backtest_df),
               Col(backtest_df, "cumulative_return")[NRows(backtest_df)].v,
               Col(backtest_df, "cumulative_strategy")[NRows(backtest_df)].v)

\* plot_results(backtest_df, symbol) on the frame backtest_strategy returned
plot_results ==
  /\ ret.op = "backtest_strategy" /\ ~ret.raised
  /\ ret' = PlotResults(ret.symbol, ret.backtest_df)
  /\ UNCHANGED <<data, engineered, scaler, models, tie_order, run>>

NextBacktest ==
  \/ backtest_rows(Markets[1])
  \/ plot_results

SpecBacktest == InitBacktest /\ [][NextBacktest]_vars

\* ----------------- EnhancedCorrelationAnalysis: lag and velocity features
lag_weeks == <<1, 2, 4>>

lag_patterns == <<"tga_", "rrp_", "walcl_", "soma_", "auction", "net_liquidity">>

velocity_patterns == <<"tga_", "rrp_", "walcl_", "net_liquidity">>

LagSources(df) ==
  SelectNames(df.names,
              {c \in Range(df.names) :
                 ContainsAny(c, lag_patterns) /\ ~Contains(c, "pct_change")})

VelocitySources(df) ==
  SelectNames(df.names,
              {c \in Range(df.names) :
                 /\ ContainsAny(c, velocity_patterns)
                 /\ ~Contains(c, "pct_change") /\ ~Contains(c, "lag")})

\* the lag columns shifted by lag rows, a week taken for one row
WeekLagStep_Rows(s, c) ==
  [k \in 1..Len(lag_weeks) |->
     NewCol(c \o "_lag_" \o ToString(lag_weeks[k]) \o "w", Shift(s, lag_weeks[k]))]

\* df[f'{col}_lag_{lag}w'] = df[col].shift(lag * 5)
WeekLagStep(s, c) ==
  [k \in 1..Len(lag_weeks) |->
     NewCol(c \o "_lag_" \o ToString(lag_weeks[k]) \o "w", Shift(s, lag_weeks[k] * 5))]

RECURSIVE WeekLags(_, _)
WeekLags(df, cols) ==
  IF cols = <<>> THEN <<>>
  ELSE WeekLagStep(Col(df, Head(cols)), Head(cols)) \o WeekLags(df, Tail(cols))

\* the frame add_lag_features returns
LagFrame(df) == AddCols(df, WeekLags(df, LagSources(df)))

VelocityStep(s, c) ==
  << NewCol(c \o "_velocity_1w", PctChange100(s, 5)),
     NewCol(c \o "_velocity_2w", PctChange100(s, 10)),
     NewCol(c \o "_velocity_1m", PctChange100(s, 20)) >>

RECURSIVE Velocities(_, _)
Velocities(df, cols) ==
  IF cols = <<>> THEN <<>>
  ELSE VelocityStep(Col(df, Head(cols)), Head(cols)) \o Velocities(df, Tail(cols))

\* the frame add_velocity_features returns
VelocityFrame(df) == AddCols(df, Velocities(df, VelocitySources(df)))

Returned(op, df) == [op |-> op, symbol |-> "", raised |-> FALSE, df |-> df]

add_lag_features ==
  /\ ret' = Returned("add_lag_features", LagFrame(data))
  /\ UNCHANGED <<data, engineered, scaler, models, tie_order, run>>

add_velocity_features ==
  /\ ret' = Returned("add_velocity_features", VelocityFrame(data))
  /\ UNCHANGED <<data, engineered, scaler, models, tie_order, run>>

\* rows of the panels the features are computed on
FeatureRows == 21

\* the rows whose net_liquidity is enumerated: one, two and four weeks apart
FreeRows == {FeatureRows - 20, FeatureRows - 10, FeatureRows - 5, FeatureRows}

LevelCells == {Num(1), Num(2), NaN}

\* a single-market panel with flat levels but for the cells vals of FreeRows
FeaturePanel(vals) ==
  SetCol(Frame([i \in 1..FeatureRows |-> WarmupRow], FeatureRows), "net_liquidity",
         [i \in 1..FeatureRows |-> IF i \in FreeRows THEN vals[i] ELSE Num(1)])

InitFeatures == \E vals \in [FreeRows -> LevelCells] : Construct(FeaturePanel(vals))

NextFeatures ==
  \/ add_lag_features
  \/ add_velocity_features

SpecFeatures == InitFeatures /\ [][NextFeatures]_vars

\* ------------------------------------------------- LiquidityDataFetcher
\* pd.DataFrame()
EmptyFrame == [names |-> <<>>, cols |-> <<>>, index |-> <<>>]

\* fetch_market_data(symbol) on the quotes closes: a row a trading day, in date
\* order, with the returns of lines 130-131; a failed request gives pd.DataFrame()
MarketFrame(symbol, closes) ==
  IF closes = <<>> THEN EmptyFrame
  ELSE [names |-> <<"date", "symbol", "close", "daily_return", "weekly_return">>,
        cols  |-> << Tuple([i \in 1..Len(closes) |-> Num(i)]),
                     Tuple([i \in 1..Len(closes) |-> Num(symbol)]),
                     Tuple(closes),
                     PctChange100(closes, 1),
                     PctChange100(closes, 5) >>,
        index |-> Tuple([i \in 1..Len(closes) |-> i])]

\* pd.concat([f, g], ignore_index=True) of two frames with the same columns
ConcatTwo(f, g) ==
  [names |-> f.names,
   cols  |-> Tuple([n \in 1..Len(f.names) |-> f.cols[n] \o g.cols[n]]),
   index |-> Tuple([i \in 1..(NRows(f) + NRows(g)) |-> i])]

\* lines 145-154: the non-empty market frames, concatenated in market order
RECURSIVE ConcatMarkets(_)
ConcatMarkets(dfs) ==
  IF dfs = <<>> THEN EmptyFrame
  ELSE IF NRows(Head(dfs)) = 0 THEN ConcatMarkets(Tail(dfs))
  ELSE IF ConcatMarkets(Tail(dfs)) = EmptyFrame THEN Head(dfs)
  ELSE ConcatTwo(Head(dfs), ConcatMarkets(Tail(dfs)))

\* the frame fetch_liquidity_data returns for the dates present: date ascending, a
\* row per date, tga_value as the endpoint gave it; no date, pd.DataFrame()
LiquidityFrame(dates, tga) ==
  IF dates = <<>> THEN EmptyFrame
  ELSE [names |-> <<"date", "tga_value">>,
        cols  |-> << Tuple([i \in 1..Len(dates) |-> Num(dates[i])]),
                     Tuple([i \in 1..Len(dates) |-> tga[dates[i]]]) >>,
        index |-> Tuple([i \in 1..Len(dates) |-> i])]

\* Series.bfill()
RECURSIVE NextValid(_, _)
NextValid(s, i) ==
  IF i > Len(s) THEN 0 ELSE IF s[i].ok THEN i ELSE NextValid(s, i + 1)

Bfill(s) == Tuple([i \in 1..Len(s) |-> PadFrom(s, NextValid(s, i))])

\* Series.fillna(0)
FillNa0(s) == Tuple([i \in 1..Len(s) |-> IF s[i].ok THEN s[i] ELSE Num(0)])

\* the rows of right whose date is that of row i of left, 0 standing for none
Matches(left, right, i) ==
  LET hit == MaskIdx([j \in 1..NRows(right) |-> Col(right, "date")[j] = Col(left, "date")[i]])
  IN  IF hit = <<>> THEN <<0>> ELSE hit

\* pd.merge(left, right, on='date', how='left'): the pairs (left row, right row) of
\* the result, in the order of left
RECURSIVE MergePairs(_, _, _)
MergePairs(left, right, i) ==
  IF i > NRows(left) THEN <<>>
  ELSE [k \in 1..Len(Matches(left, right, i)) |-> <<i, Matches(left, right, i)[k]>>]
       \o MergePairs(left, right, i + 1)

OtherNames(right) == SelectNames(right.names, Range(right.names) \ {"date"})

MergedOn(left, right, others, pairs) ==
  [names |-> left.names \o others,
   cols  |-> Tuple([n \in 1..Len(left.names) |->
                      Tuple([r \in 1..Len(pairs) |-> left.cols[n][pairs[r][1]]])])
             \o Tuple([n \in 1..Len(others) |->
                         Tuple([r \in 1..Len(pairs) |->
                                  IF pairs[r][2] = 0 THEN NaN
                                  ELSE Col(right, others[n])[pairs[r][2]]])]),
   index |-> Tuple([r \in 1..Len(pairs) |-> r])]

LeftMerge(left, right) ==
  MergedOn(left, right, OtherNames(right), MergePairs(left, right, 1))

merge_patterns == <<"tga_", "rrp_", "walcl_", "soma_", "auction", "net_liquidity">>

\* lines 170-179: every liquidity column filled forward, then backward
FillLiquidity(merged) ==
  [merged EXCEPT !.cols =
     Tuple([n \in 1..Len(merged.names) |->
              IF ContainsAny(merged.names[n], merge_patterns)
              THEN Bfill(Ffill(merged.cols[n])) ELSE merged.cols[n]])]

\* merged.dropna(subset=['close', 'symbol'])
DropNoPrice(merged) ==
  TakeRows(merged, MaskIdx([i \in 1..NRows(merged) |->
                              Col(merged, "close")[i].ok /\ Col(merged, "symbol")[i].ok]))

\* lines 186-189
FillReturns(result) ==
  [result EXCEPT !.cols =
     Tuple([n \in 1..Len(result.names) |->
              IF result.names[n] \in {"daily_return", "weekly_return"}
              THEN FillNa0(result.cols[n]) ELSE result.cols[n]])]

\* the frame merge_liquidity_and_markets returns; an argument without a date
\* column raises KeyError at lines 162-163
Merged(liquidity_df, market_df) ==
  IF ~HasCol(liquidity_df, "date") \/ ~HasCol(market_df, "date")
  THEN Raised("merge_liquidity_and_markets", "", "KeyError")
  ELSE Returned("merge_liquidity_and_markets",
                FillReturns(DropNoPrice(FillLiquidity(LeftMerge(market_df, liquidity_df)))))

\* rows a market is fetched with, and dates the liquidity endpoints cover
MaxMarketRows == 2
MaxDates == 3

PriceCells == {Num(1), Num(2), NaN}

Quotes == UNION {[1..n -> PriceCells] : n \in 0..MaxMarketRows}

\* the fetcher before its first request
InitMerge == Construct(EmptyFrame)

\* self.data stands for market_data of run_full_analysis (main_runner.py line 49)
fetch_all_markets ==
  /\ ret = NoCall
  /\ \E first \in Quotes, last \in Quotes :
       /\ data' = ConcatMarkets(<<MarketFrame(Markets[1], Tuple(first)),
                                  MarketFrame(Markets[2], Tuple(last))>>)
       /\ ret' = Returned("fetch_all_markets", data')
  /\ UNCHANGED <<engineered, scaler, models, tie_order, run>>

merge_liquidity_and_markets ==
  /\ ret.op = "fetch_all_markets"
  /\ \E days \in SUBSET (1..MaxDates), tga \in [1..MaxDates -> {Num(1), NaN}] :
       /\ \A d \in (1..MaxDates) \ days : tga[d] = NaN
       /\ ret' = Merged(LiquidityFrame(MaskIdx([d \in 1..MaxDates |-> d \in days]), tga),
                        data)
  /\ UNCHANGED <<data, engineered, scaler, models, tie_order, run>>

NextMerge ==
  \/ fetch_all_markets
  \/ merge_liquidity_and_markets

SpecMerge == InitMerge /\ [][NextMerge]_vars

\* ------------------------------ AdvancedLiquidityAnalysis.regime_analysis
regime_labels == <<"Very_Tight", "Tight", "Loose", "Very_Loose">>

\* the defined values of a column, in row order
Defined(s) == [k \in 1..Len(MaskIdx([i \in 1..Len(s) |-> s[i].ok])) |->
                 s[MaskIdx([i \in 1..Len(s) |-> s[i].ok])[k]].v]

\* the values v ascending
Sorted(v) ==
  [r \in 1..Len(v) |->
     CHOOSE x \in Range(v) :
       /\ Cardinality({i \in 1..Len(v) : v[i] < x}) < r
       /\ r <= Cardinality({i \in 1..Len(v) : v[i] <= x})]

\* four times the k-th q-quantile of the ascending values s, by linear
\* interpolation between the two order statistics around (n - 1) * k / q
Quantile4(s, k, q) ==
  LET pos == (Len(s) - 1) * k
      lo  == pos \div q + 1
      r   == pos % q
  IN  IF r = 0 THEN q * s[lo] ELSE q * s[lo] + r * (s[lo + 1] - s[lo])

\* the bin edges of pd.qcut(x, q), times q
BinEdges(s, q) == [k \in 1..(q + 1) |-> Quantile4(s, k - 1, q)]

\* "Bin edges must be unique"
EdgesUnique(edges) == \A k \in 1..(Len(edges) - 1) : edges[k] < edges[k + 1]

\* the bin of the value v: (edge[k], edge[k+1]], the lowest edge included
BinOf(edges, v, q) ==
  CHOOSE k \in 1..(Len(edges) - 1) :
    /\ q * v <= edges[k + 1]
    /\ k = 1 \/ q * v > edges[k]

\* pd.qcut(x, q=4, labels=regime_labels): the label of every row, NaN for a row
\* without a value
QcutLabels(x, edges) ==
  Tuple([i \in 1..Len(x) |->
           IF x[i].ok THEN Num(regime_labels[BinOf(edges, x[i].v, Len(regime_labels))])
           ELSE NaN])

\* the rows of each label, in label order (groupby keeps every category)
GroupSizes(labels) ==
  [k \in 1..Len(regime_labels) |->
     Cardinality({i \in 1..Len(labels) : labels[i] = Num(regime_labels[k])})]

\* lines 31-44 once the bin edges are known
RegimeGrouped(df, edges) ==
  IF ~EdgesUnique(edges) THEN Raised("regime_analysis", "", "ValueError")
  ELSE IF ~(HasCol(df, "weekly_return") /\ HasCol(df, "daily_return") /\ HasCol(df, "close"))
  THEN Raised("regime_analysis", "", "KeyError")
  ELSE [op |-> "regime_analysis", symbol |-> "", raised |-> FALSE,
        liq_regime |-> QcutLabels(Col(df, "net_liquidity"), edges),
        sizes |-> GroupSizes(QcutLabels(Col(df, "net_liquidity"), edges))]

\* what regime_analysis returns or raises on the panel df
RegimeAnalysis(df) ==
  IF ~HasCol(df, "net_liquidity")
  THEN [op |-> "regime_analysis", symbol |-> "", raised |-> FALSE,
        liq_regime |-> <<>>, sizes |-> <<>>]
  ELSE IF Defined(Col(df, "net_liquidity")) = <<>>
  THEN Raised("regime_analysis", "", "ValueError")
  ELSE RegimeGrouped(df, BinEdges(Sorted(Defined(Col(df, "net_liquidity"))),
                                  Len(regime_labels)))

regime_analysis ==
  /\ ret' = RegimeAnalysis(data)
  /\ UNCHANGED <<data, engineered, scaler, models, tie_order, run>>

\* rows of the panels the regimes are assigned on, and their net_liquidity levels
MaxRegimeRows == 5
MaxLevel == 4

\* a single-market merged panel with the levels given
RegimePanel(levels) ==
  AddCols(Frame([i \in 1..Len(levels) |->
                   [net_liquidity |-> levels[i], close |-> 1, weekly_return |-> 0]],
                Len(levels)),
          << NewCol("daily_return", [i \in 1..Len(levels) |-> Num(0)]) >>)

InitRegime ==
  \E n \in 4..MaxRegimeRows : \E levels \in [1..n -> 1..MaxLevel] :
    Construct(RegimePanel(levels))

NextRegime == regime_analysis

SpecRegime == InitRegime /\ [][NextRegime]_vars

\* -------------------------------------------------- correlation rankings
\* df[[col, target]].dropna(): the rows where both are defined
Overlap(x, y) == MaskIdx([i \in 1..Len(x) |-> x[i].ok /\ y[i].ok])

\* Pearson's r from the sums over n rows, held exactly as the covariance and the two
\* variances, each times n * n: r = cov / sqrt(vx * vy), and r is NaN when a
\* variance is 0 (a constant column) or there is no row
PearsonOf(n, sx, sy, sxx, syy, sxy) ==
  [ok  |-> n > 0 /\ n * sxx - sx * sx # 0 /\ n * syy - sy * sy # 0,
   cov |-> n * sxy - sx * sy,
   vx  |-> n * sxx - sx * sx,
   vy  |-> n * syy - sy * sy]

PearsonOn(xs, ys) ==
  PearsonOf(Len(xs), SumSeq(xs), SumSeq(ys),
            SumSeq(Tuple([k \in 1..Len(xs) |-> xs[k] * xs[k]])),
            SumSeq(Tuple([k \in 1..Len(ys) |-> ys[k] * ys[k]])),
            SumSeq(Tuple([k \in 1..Len(xs) |-> xs[k] * ys[k]])))

\* temp_df[col].corr(temp_df[target]) on the rows idx
Pearson(x, y, idx) ==
  PearsonOn(Tuple([k \in 1..Len(idx) |-> x[idx[k]].v]),
            Tuple([k \in 1..Len(idx) |-> y[idx[k]].v]))

Magnitude(i) == IF i < 0 THEN -i ELSE i

\* r * r as a fraction, for a defined r: the digits of cov * cov over vx and vy
Squared(corr) ==
  [num |-> Times(Times(<<1>>, Magnitude(corr.cov)), Magnitude(corr.cov)),
   vx |-> corr.vx, vy |-> corr.vy]

\* |a| < |b| for two squares
AbsLess(a, b) ==
  Less(Times(Times(a.num, b.vx), b.vy), Times(Times(b.num, a.vx), a.vy))

\* any number of rows is enough
Enough_Any(rows, floor) == TRUE

\* len(temp_df) > floor
Enough(rows, floor) == rows > floor

\* every correlation passes
Finite_Any(corr) == TRUE

\* not np.isnan(corr)
Finite(corr) == corr.ok

\* one turn of the loop over feature columns: the entry of col, if it gets one
Correlation(col, x, y, idx, floor) ==
  IF Enough(Len(idx), floor) /\ Finite(Pearson(x, y, idx))
  THEN << [Feature |-> col, Correlation |-> Pearson(x, y, idx),
           rows |-> Len(idx)] >>
  ELSE <<>>

\* the dict correlations, in insertion order: the feature columns cols of df
\* against target
RECURSIVE Correlations(_, _, _, _)
Correlations(df, cols, target, floor) ==
  IF cols = <<>> THEN <<>>
  ELSE Correlation(Head(cols), Col(df, Head(cols)), Col(df, target),
                   Overlap(Col(df, Head(cols)), Col(df, target)), floor)
       \o Correlations(df, Tail(cols), target, floor)

\* report['Abs_Correlation'] = report['Correlation'].abs()
WithAbs(report) ==
  Tuple([i \in 1..Len(report) |->
           [Feature |-> report[i].Feature, Correlation |-> report[i].Correlation,
            rows |-> report[i].rows,
            Abs_Correlation |-> Squared(report[i].Correlation)]])

\* row j of the report goes before row i in the sorted one
Precedes(report, ties, j, i) ==
  \/ AbsLess(report[i].Abs_Correlation, report[j].Abs_Correlation)
  \/ /\ ~AbsLess(report[j].Abs_Correlation, report[i].Abs_Correlation)
     /\ IF ties = TieOrders[1] THEN j < i ELSE j > i

\* a sort that leaves the report in the order of discovery
SortValues_None(report, ties) == report

\* report.sort_values('Abs_Correlation', ascending=False)
SortValues(report, ties) ==
  Tuple([k \in 1..Len(report) |->
           report[CHOOSE i \in 1..Len(report) :
                    Cardinality({j \in 1..Len(report) : Precedes(report, ties, j, i)})
                      = k - 1]])

\* the ranking of the features cols of df against target: correlations, then the
\* report sorted
Ranking(df, cols, target, floor, ties) ==
  SortValues(WithAbs(Correlations(df, cols, target, floor)), ties)

\* the entries of a dict built key by key, a key kept `if correlations`
NonEmpty(keys, all) ==
  [k \in {keys[i] : i \in {i \in 1..Len(keys) : all[i] # <<>>}} |->
     all[CHOOSE i \in 1..Len(keys) : keys[i] = k]]

\* df = self.data.copy(): the columns assigned to df are not assigned to self.data
SelfData_Shared(self_data, df) == df

SelfData(self_data, df) == self_data

\* what a ranking call returns: the rankings by key (one key, report, for the
\* calls that return a frame); again: the call before was the same call
Ranked(op, tables) ==
  [op |-> op, symbol |-> "", raised |-> FALSE, tables |-> tables,
   again |-> ret.op = op]

\* -------------------------------- LiquidityMLAnalyzer.analyze_correlations
coarse_patterns == <<"tga_", "rrp_", "walcl_", "soma_", "auction", "net_liquidity">>

CoarseCols(df) ==
  SelectNames(df.names,
              {c \in Range(df.names) :
                 ContainsAny(c, coarse_patterns) /\ ~Contains(c, "pct_change")})

\* lines 102-121: the rows with a weekly_return, and the columns with more than 10
\* values on them
CoarseClean(df) == TakeRows(df, MaskIdx([i \in 1..NRows(df) |-> Col(df, "weekly_return")[i].ok]))

ValidCols(df_clean, cols) ==
  SelectNames(cols, {c \in Range(cols) : NotNaCount(Col(df_clean, c)) > 10})

CoarseReport(df, ties) ==
  IF ~HasCol(df, "weekly_return") THEN <<>>
  ELSE Ranking(CoarseClean(df), ValidCols(CoarseClean(df), CoarseCols(df)),
               "weekly_return", 10, ties)

analyze_correlations ==
  /\ ret' = Ranked("analyze_correlations", [k \in {"report"} |-> CoarseReport(data, tie_order)])
  /\ data' = SelfData(data, data)
  /\ UNCHANGED <<engineered, scaler, models, tie_order, run>>

\* ------------------------ EnhancedCorrelationAnalysis: the rankings
\* add_multiple_return_periods with the returns taken from the first level column
\* when there is no close
ReturnPeriodsFrame_Synthesized(df) ==
  AddCols(df, << NewCol("return_2w",
                        PctChange100(Col(df, IF HasCol(df, "close") THEN "close"
                                             ELSE "net_liquidity"), 10)) >>)

\* add_multiple_return_periods
ReturnPeriodsFrame(df) ==
  IF ~HasCol(df, "close") THEN df
  ELSE AddCols(df, << NewCol("return_2w", PctChange100(Col(df, "close"), 10)),
                      NewCol("return_1m", PctChange100(Col(df, "close"), 20)),
                      NewCol("return_3m", PctChange100(Col(df, "close"), 60)) >>)

\* np.where(close > sma_200, 'BULL', 'BEAR'): a comparison with NaN is False
RegimeOf(close, sma_200) ==
  Tuple([i \in 1..Len(close) |->
           IF close[i].ok /\ sma_200[i].ok /\ 200 * close[i].v > sma_200[i].v
           THEN Num("BULL") ELSE Num("BEAR")])

\* pd.cut(momentum_50, bins=[-inf, -10, 10, inf], labels=['BEAR', 'NEUTRAL', 'BULL']):
\* the bins (-inf, -10], (-10, 10], (10, inf] of the computed momentum.  The column
\* is (q - 1) * 100 in binary floating point, q the quotient of the two closes, and
\* no q gives -10.0 or 10.0: a fall of a tenth (q = 0.9) gives -9.999999999999998
\* and a rise of a tenth (q = 1.1) gives 10.000000000000009.  With momentum_50 held
\* to the whole percent below, the computed value is in (-inf, -10] iff the held one
\* is below -10, and in (10, inf] iff the held one is at least 10.
MomentumRegime_Signed(momentum_50) ==
  Tuple([i \in 1..Len(momentum_50) |->
           IF ~momentum_50[i].ok THEN NaN
           ELSE IF momentum_50[i].v < 0 THEN Num("BEAR")
           ELSE Num("BULL")])

MomentumRegime(momentum_50) ==
  Tuple([i \in 1..Len(momentum_50) |->
           IF ~momentum_50[i].ok THEN NaN
           ELSE IF momentum_50[i].v < -10 THEN Num("BEAR")
           ELSE IF momentum_50[i].v < 10 THEN Num("NEUTRAL")
           ELSE Num("BULL")])

\* the 200-row sum of close, NaN before row 200: 200 times rolling(200).mean()
Sma200(close) ==
  Tuple([i \in 1..Len(close) |->
           IF WindowOk(close, i, 200) THEN Num(SumV(close, i - 199, i)) ELSE NaN])

\* identify_market_regime
MarketRegimeFrame(df) ==
  IF ~HasCol(df, "close") THEN df
  ELSE AddCols(df, << NewCol("sma_200", Sma200(Col(df, "close"))),
                      NewCol("regime", RegimeOf(Col(df, "close"), Sma200(Col(df, "close")))),
                      NewCol("momentum_50", PctChange100(Col(df, "close"), 50)),
                      NewCol("regime_momentum",
                             MomentumRegime(PctChange100(Col(df, "close"), 50))) >>)

identify_market_regime ==
  /\ ret' = Returned("identify_market_regime", MarketRegimeFrame(data))
  /\ data' = SelfData(data, MarketRegimeFrame(data))
  /\ UNCHANGED <<engineered, scaler, models, tie_order, run>>

add_multiple_return_periods ==
  /\ ret' = Returned("add_multiple_return_periods", ReturnPeriodsFrame(data))
  /\ data' = SelfData(data, ReturnPeriodsFrame(data))
  /\ UNCHANGED <<engineered, scaler, models, tie_order, run>>

\* analyze_lagged_correlations, lines 90-91: df is assigned the frame of
\* add_lag_features and then the frame of add_velocity_features, each made from a
\* copy of self.data; the second assignment is the one that stays
LaggedFrame(self_data) == VelocityFrame(self_data)

lagged_patterns == <<"tga_", "rrp_", "walcl_", "net_liquidity", "_velocity_", "_lag_">>

LaggedCols(df, target) ==
  SelectNames(df.names,
              {c \in Range(df.names) : ContainsAny(c, lagged_patterns) /\ c # target})

LaggedReport(df, target, ties) ==
  IF ~HasCol(df, target) THEN <<>>
  ELSE Ranking(df, LaggedCols(df, target), target, 30, ties)

analyze_lagged_correlations ==
  /\ ret' = Ranked("analyze_lagged_correlations",
                   [k \in {"report"} |->
                      LaggedReport(LaggedFrame(data), "weekly_return", tie_order)])
  /\ data' = SelfData(data, LaggedFrame(data))
  /\ UNCHANGED <<engineered, scaler, models, tie_order, run>>

\* analyze_regime_correlations, lines 126-127: the frame of identify_market_regime
\* is replaced by the frame of add_velocity_features
RegimeFrame(self_data) == VelocityFrame(self_data)

conditioned_patterns == <<"tga_", "rrp_", "walcl_", "net_liquidity", "_velocity_">>

ConditionedCols(df) ==
  SelectNames(df.names,
              {c \in Range(df.names) :
                 /\ ContainsAny(c, conditioned_patterns)
                 /\ ~Contains(c, "pct_change") /\ ~Contains(c, "lag")})

regimes == <<"BULL", "BEAR">>

\* df[df['regime'] == regime]
RegimeRows(df, regime) ==
  TakeRows(df, MaskIdx([i \in 1..NRows(df) |-> Col(df, "regime")[i] = Num(regime)]))

\* lines 139-157 on the frame df with its feature columns cols
RegimeRankings(df, cols, ties) ==
  NonEmpty(regimes,
           Tuple([k \in 1..Len(regimes) |->
                    Ranking(RegimeRows(df, regimes[k]), cols, "weekly_return", 20, ties)]))

RegimeTables(df, ties) ==
  IF ~HasCol(df, "regime") \/ ~HasCol(df, "weekly_return") THEN <<>>
  ELSE RegimeRankings(df, ConditionedCols(df), ties)

analyze_regime_correlations ==
  /\ ret' = Ranked("analyze_regime_correlations", RegimeTables(RegimeFrame(data), tie_order))
  /\ data' = SelfData(data, RegimeFrame(data))
  /\ UNCHANGED <<engineered, scaler, models, tie_order, run>>

\* analyze_multiple_timeframes, lines 163-164: the frame of
\* add_multiple_return_periods is replaced by the frame of add_velocity_features
TimeframeFrame(self_data) == VelocityFrame(self_data)

return_cols == <<"weekly_return", "return_2w", "return_1m", "return_3m">>

TimeframeRankings(df, cols, targets, ties) ==
  NonEmpty(targets,
           Tuple([k \in 1..Len(targets) |-> Ranking(df, cols, targets[k], 30, ties)]))

TimeframeTables(df, ties) ==
  TimeframeRankings(df, ConditionedCols(df),
                    SelectNames(return_cols, Range(return_cols) \cap Range(df.names)),
                    ties)

analyze_multiple_timeframes ==
  /\ ret' = Ranked("analyze_multiple_timeframes", TimeframeTables(TimeframeFrame(data), tie_order))
  /\ data' = SelfData(data, TimeframeFrame(data))
  /\ UNCHANGED <<engineered, scaler, models, tie_order, run>>

\* rows of the panels the rankings are made on: around the floors 10, 20 and 30
MaxRankRows == 41
RankRows == {8, 10, 11, 20, 21, 30, 31, MaxRankRows}

\* how a level column moves with the market's weeks: net_liquidity not at all or
\* with them, tga_value against them or on a period of its own
LiquidityKinds == {"flat", "with"}
DrainKinds == {"against", "drift"}

Level(kind, i) ==
  IF kind = "flat" THEN 10
  ELSE IF kind = "with" THEN Rows(i, 1)[i].net_liquidity
  ELSE IF kind = "against" THEN 3 - Rows(i, 1)[i].net_liquidity
  ELSE IF i % 3 = 0 THEN 2 ELSE 1

\* a single-market panel of n rows: net_liquidity of kind liq on every row,
\* tga_value of kind tga on the first k rows and missing after, close on a period
\* of its own
RankColumns(n, liq, tga, k) ==
  AddCols(Frame(Rows(n, 1), n),
          << NewCol("close", [i \in 1..n |-> Num(Level("drift", i))]),
             NewCol("net_liquidity", [i \in 1..n |-> Num(Level(liq, i))]),
             NewCol("tga_value", [i \in 1..n |-> IF i <= k THEN Num(Level(tga, i)) ELSE NaN]) >>)

\* the panel, with a regime column when it was saved with one: the first 21 rows
\* BULL, the rest BEAR
RankPanel(n, liq, tga, k, labelled) ==
  IF labelled
  THEN AddCols(RankColumns(n, liq, tga, k),
               << NewCol("regime", [i \in 1..n |-> Num(IF i <= 21 THEN "BULL" ELSE "BEAR")]) >>)
  ELSE RankColumns(n, liq, tga, k)

InitRanking ==
  \E n \in RankRows, liq \in LiquidityKinds, tga \in DrainKinds, labelled \in BOOLEAN,
     ties \in Range(TieOrders) :
    \E k \in {8, n} : Built(RankPanel(n, liq, tga, k, labelled), ties)

NextRanking ==
  \/ analyze_correlations
  \/ analyze_lagged_correlations
  \/ analyze_regime_correlations
  \/ analyze_multiple_timeframes
  \/ identify_market_regime
  \/ add_multiple_return_periods

SpecRanking == InitRanking /\ [][NextRanking]_vars

\* ------------------------------- the market regimes of a single market
\* rows of the longest panel the regimes are labelled on: the 200-row average is
\* defined on its last two rows
MaxPriceRows == 201

\* the close of a row that is enumerated: the panel's other rows close at 10
PriceLevels == {Num(8), Num(9), Num(10), Num(11), Num(12), NaN}

\* a single-market panel of n rows closing at 10 but on row 51 and on its last row
PricePanel(n, mid, last) ==
  SetCol(Frame([i \in 1..n |-> WarmupRow], n), "close",
         [i \in 1..n |-> IF i = n THEN last ELSE IF i = 51 THEN mid ELSE Num(10)])

\* the panel as a file without prices holds it
WithoutClose(df) == SubFrame(df, SelectNames(df.names, Range(df.names) \ {"close"}))

InitMarket ==
  \E n \in {52, MaxPriceRows}, mid \in PriceLevels, last \in PriceLevels, priced \in BOOLEAN :
    Construct(IF priced THEN PricePanel(n, mid, last)
              ELSE WithoutClose(PricePanel(n, mid, last)))

NextMarket ==
  \/ identify_market_regime
  \/ add_multiple_return_periods

SpecMarket == InitMarket /\ [][NextMarket]_vars

\* ------------------- AdvancedLiquidityAnalysis: flow directions and tests
\* count, sum and sum of squares of the defined values of wr on the rows idx: what
\* mean, std and count of a group are taken from
Stats(wr, idx) ==
  [count |-> Len(Defined(Tuple([k \in 1..Len(idx) |-> wr[idx[k]]]))),
   sum   |-> SumSeq(Defined(Tuple([k \in 1..Len(idx) |-> wr[idx[k]]]))),
   sumsq |-> SumSeq(Tuple([k \in 1..Len(Defined(Tuple([j \in 1..Len(idx) |-> wr[idx[j]]]))) |->
                             Defined(Tuple([j \in 1..Len(idx) |-> wr[idx[j]]]))[k]
                               * Defined(Tuple([j \in 1..Len(idx) |-> wr[idx[j]]]))[k]]))]

\* df.groupby(flag)['weekly_return'].agg(['mean', 'std', 'count'])
GroupBy(flag, wr) ==
  [g \in Range(flag) |-> Stats(wr, MaskIdx([i \in 1..Len(flag) |-> flag[i] = g]))]

\* df[c] < threshold and df[c] > threshold: a comparison with NaN is False
Below(col, threshold) == Tuple([i \in 1..Len(col) |-> col[i].ok /\ col[i].v < threshold])
Above(col, threshold) == Tuple([i \in 1..Len(col) |-> col[i].ok /\ col[i].v > threshold])

\* the flag columns the method assigns, and the ones the panel came with
FlowFlags(df) ==
  (IF HasCol(df, "tga_pct_change")
   THEN << NewCol("tga_draining", Below(Col(df, "tga_pct_change"), -1)) >> ELSE <<>>)
  \o (IF HasCol(df, "rrp_pct_change")
      THEN << NewCol("rrp_outflow", Below(Col(df, "rrp_pct_change"), -2)) >> ELSE <<>>)
  \o (IF HasCol(df, "walcl_pct_change")
      THEN << NewCol("fed_expanding", Above(Col(df, "walcl_pct_change"), 0)) >> ELSE <<>>)

FlowFrame(df) == AddCols(df, FlowFlags(df))

Both(a, b) == Tuple([i \in 1..Len(a) |-> a[i] /\ b[i]])

\* the keys of the result, and the flag each is grouped by
FlowKeys(df, flagged) ==
  {k \in {"tga_drainage"} : HasCol(df, "tga_pct_change")}
    \cup {k \in {"rrp_outflow"} : HasCol(df, "rrp_pct_change")}
    \cup {k \in {"fed_expansion"} : HasCol(df, "walcl_pct_change")}
    \cup {k \in {"double_injection"} :
            HasCol(flagged, "tga_draining") /\ HasCol(flagged, "rrp_outflow")}

FlowFlag(flagged, key) ==
  IF key = "tga_drainage" THEN Col(flagged, "tga_draining")
  ELSE IF key = "rrp_outflow" THEN Col(flagged, "rrp_outflow")
  ELSE IF key = "fed_expansion" THEN Col(flagged, "fed_expanding")
  ELSE Both(Col(flagged, "tga_draining"), Col(flagged, "rrp_outflow"))

\* what flow_dynamics_analysis returns or raises on the panel df
FlowDynamics(df, flagged) ==
  IF FlowKeys(df, flagged) # {} /\ ~HasCol(df, "weekly_return")
  THEN Raised("flow_dynamics_analysis", "", "KeyError")
  ELSE [op |-> "flow_dynamics_analysis", symbol |-> "", raised |-> FALSE,
        results |-> [k \in FlowKeys(df, flagged) |->
                       GroupBy(FlowFlag(flagged, k), Col(df, "weekly_return"))]]

flow_dynamics_analysis ==
  /\ ret' = FlowDynamics(data, FlowFrame(data))
  /\ data' = SelfData(data, FlowFrame(data))
  /\ UNCHANGED <<engineered, scaler, models, tie_order, run>>

\* twice the median of the ascending values s
Median2(s) ==
  IF Len(s) % 2 = 1 THEN 2 * s[(Len(s) + 1) \div 2]
  ELSE s[Len(s) \div 2] + s[Len(s) \div 2 + 1]

\* the weekly returns of the rows above the median net_liquidity, and of the rows
\* at or below it; a row without net_liquidity is in neither
HighLow(liq, wr, median2) ==
  [high |-> Stats(wr, MaskIdx([i \in 1..Len(liq) |-> liq[i].ok /\ 2 * liq[i].v > median2])),
   low  |-> Stats(wr, MaskIdx([i \in 1..Len(liq) |-> liq[i].ok /\ 2 * liq[i].v <= median2]))]

\* stats.ttest_ind on the two groups: the statistic is a function of their counts,
\* sums and sums of squares.  Without a defined net_liquidity the median is NaN and
\* both groups are empty.
LiquidityTest(liq, wr) ==
  IF Defined(liq) = <<>>
  THEN [high |-> Stats(wr, <<>>), low |-> Stats(wr, <<>>)]
  ELSE HighLow(liq, wr, Median2(Sorted(Defined(liq))))

\* stats.pearsonr(change.dropna(), weekly_return where change is defined): it raises
\* on fewer than 2 rows; a NaN among the returns makes the correlation NaN
ChangeTest(change, wr) ==
  LET idx == MaskIdx([i \in 1..Len(change) |-> change[i].ok])
  IN  IF \E k \in 1..Len(idx) : ~wr[idx[k]].ok
      THEN [ok |-> FALSE, cov |-> 0, vx |-> 0, vy |-> 0]
      ELSE Pearson(change, wr, idx)

StatisticalTestKeys(df) ==
  {k \in {"high_vs_low_liquidity"} : HasCol(df, "net_liquidity") /\ HasCol(df, "weekly_return")}
    \cup {k \in {"net_liq_change_correlation"} :
            HasCol(df, "net_liquidity_pct_change") /\ HasCol(df, "weekly_return")}

StatisticalTests(df) ==
  IF /\ "net_liq_change_correlation" \in StatisticalTestKeys(df)
     /\ NotNaCount(Col(df, "net_liquidity_pct_change")) < 2
  THEN Raised("statistical_tests", "", "ValueError")
  ELSE [op |-> "statistical_tests", symbol |-> "", raised |-> FALSE,
        tests |-> [k \in StatisticalTestKeys(df) |->
                     IF k = "high_vs_low_liquidity"
                     THEN LiquidityTest(Col(df, "net_liquidity"), Col(df, "weekly_return"))
                     ELSE ChangeTest(Col(df, "net_liquidity_pct_change"),
                                     Col(df, "weekly_return"))]]

statistical_tests ==
  /\ ret' = StatisticalTests(data)
  /\ data' = SelfData(data, data)
  /\ UNCHANGED <<engineered, scaler, models, tie_order, run>>

\* a call of engineer_features: the frame made from a copy of self.data
EngineerFeatures ==
  /\ ret' = Returned("engineer_features", engineered)
  /\ data' = SelfData(data, Engineered(data))
  /\ UNCHANGED <<engineered, scaler, models, tie_order, run>>

\* rows of the longest panel every analysis is called on
MaxFrameRows == 21

\* the day-on-day change columns of the liquidity file
FlowColumns(df) ==
  AddCols(df,
          << NewCol("tga_pct_change", PctChange100(Col(df, "tga_value"), 1)),
             NewCol("rrp_pct_change",
                    [i \in 1..NRows(df) |-> Num(IF i % 3 = 0 THEN -3 ELSE 1)]),
             NewCol("walcl_pct_change", Col(df, "weekly_return")),
             NewCol("net_liquidity_pct_change", PctChange100(Col(df, "net_liquidity"), 1)) >>)

InitFrame ==
  \E n \in {8, 11, MaxFrameRows}, liq \in LiquidityKinds, tga \in DrainKinds,
     flows \in BOOLEAN :
    Construct(IF flows THEN FlowColumns(RankPanel(n, liq, tga, n, FALSE))
              ELSE RankPanel(n, liq, tga, n, FALSE))

NextFrame ==
  \/ add_lag_features
  \/ add_velocity_features
  \/ add_multiple_return_periods
  \/ identify_market_regime
  \/ EngineerFeatures
  \/ analyze_correlations
  \/ analyze_lagged_correlations
  \/ analyze_regime_correlations
  \/ analyze_multiple_timeframes
  \/ regime_analysis
  \/ flow_dynamics_analysis
  \/ statistical_tests

SpecFrame == InitFrame /\ [][NextFrame]_vars

\* ------------------------------------------- main_runner.run_full_analysis
\* the symbols lists the run is called with
SymbolLists == {<<"SPX", "DJIA">>, <<"DJIA", "SPX">>, <<"SPX">>}

\* the run after step 1 on the list symbols; analyzer: the local name analyzer is
\* bound; model_results: the symbols train_model returned a result for; attempted
\* and backtested: the symbols whose training and backtest were started, in order
Started(symbols, pc) ==
  [pc |-> pc, symbols |-> symbols, i |-> 1, analyzer |-> FALSE, step2_ok |-> FALSE,
   model_results |-> {}, attempted |-> <<>>, train_failed |-> {},
   backtested |-> <<>>, backtest_failed |-> {}, advanced |-> FALSE]

\* lines 17-69, the call and step 1: the panel is fetched and merged, or read from
\* the file of an earlier run; with neither, the run returns
run_full_analysis(symbols) ==
  /\ run.pc = "none"
  /\ \E available \in BOOLEAN :
       run' = Started(symbols, IF available THEN "step2" ELSE "returned")
  /\ UNCHANGED <<data, engineered, scaler, models, tie_order, ret>>

\* lines 71-121, step 2: the enhanced analysis runs on its own analyzer; when it
\* raises, and only then, analyzer is bound to a LiquidityMLAnalyzer on the panel
\* and its analyze_correlations is called and saved, outside any try
Step2Correlation ==
  /\ run.pc = "step2"
  /\ \/ /\ run' = [run EXCEPT !.pc = "step3", !.step2_ok = TRUE]
        /\ UNCHANGED ret
     \/ /\ \E saved \in BOOLEAN :
             run' = [run EXCEPT !.pc = IF saved THEN "step3" ELSE "raised",
                                !.analyzer = TRUE]
        /\ ret' = Ranked("analyze_correlations",
                         [k \in {"report"} |-> CoarseReport(data, tie_order)])
  /\ UNCHANGED <<data, engineered, scaler, models, tie_order>>

\* where the run goes on after an exception raised in a try of a loop: the handler
\* prints it and the statement after the try is next
ExceptPrint_Raise(resume) == "raised"

ExceptPrint(resume) == resume

\* the run after one pass of a loop over symbols that ends at pc, the next step
\* being after
Advanced(r, after) ==
  IF r.i = Len(r.symbols) THEN [r EXCEPT !.pc = after, !.i = 1]
  ELSE [r EXCEPT !.i = r.i + 1]

\* lines 128-145, one pass of the training loop given the analyzer after the call
\* of train_model, t; an unbound analyzer raises NameError before the call
TrainPass(r, symbol, t) ==
  IF ~r.analyzer \/ t.ret.raised
  THEN [Advanced([r EXCEPT !.attempted = Append(r.attempted, symbol),
                           !.train_failed = r.train_failed \cup {symbol}], "step4")
          EXCEPT !.pc = ExceptPrint(Advanced(r, "step4").pc)]
  ELSE Advanced([r EXCEPT !.attempted = Append(r.attempted, symbol),
                          !.model_results = r.model_results \cup {symbol}], "step4")

Step3Train ==
  /\ run.pc = "step3"
  /\ \E leaf \in Probas :
       LET symbol == run.symbols[run.i]
           t == TrainModel(scaler, models, symbol, "rf", leaf,
                           prepare_ml_data(engineered, symbol))
       IN  /\ run' = TrainPass(run, symbol, t)
           /\ IF run.analyzer
              THEN scaler' = t.scaler /\ models' = t.models /\ ret' = t.ret
              ELSE UNCHANGED <<scaler, models, ret>>
  /\ UNCHANGED <<data, engineered, tie_order>>

\* lines 151-174, one pass of the backtest loop given the analyzer after the call of
\* backtest_strategy, b
BacktestPass(r, symbol, b) ==
  IF symbol \notin r.model_results THEN Advanced(r, "step5")
  ELSE IF b.ret.raised
  THEN [Advanced([r EXCEPT !.backtested = Append(r.backtested, symbol),
                           !.backtest_failed = r.backtest_failed \cup {symbol}], "step5")
          EXCEPT !.pc = ExceptPrint(Advanced(r, "step5").pc)]
  ELSE Advanced([r EXCEPT !.backtested = Append(r.backtested, symbol)], "step5")

Step4Backtest ==
  /\ run.pc = "step4"
  /\ \E leaf \in Probas :
       LET symbol == run.symbols[run.i]
           b == Backtest(scaler, models, symbol, leaf, engineered,
                         prepare_ml_data(engineered, symbol))
       IN  /\ run' = BacktestPass(run, symbol, b)
           /\ IF symbol \in run.model_results
              THEN scaler' = b.scaler /\ models' = b.models /\ ret' = b.ret
              ELSE UNCHANGED <<scaler, models, ret>>
  /\ UNCHANGED <<data, engineered, tie_order>>

\* lines 176-198, step 5: the advanced analysis on its own analyzer, in a try
Step5Advanced ==
  /\ run.pc = "step5"
  /\ run' = [run EXCEPT !.pc = "summary", !.advanced = TRUE]
  /\ UNCHANGED <<data, engineered, scaler, models, tie_order, ret>>

\* lines 200-213
RunSummary ==
  /\ run.pc = "summary"
  /\ run' = [run EXCEPT !.pc = "done"]
  /\ UNCHANGED <<data, engineered, scaler, models, tie_order, ret>>

NextRunner ==
  \/ \E symbols \in SymbolLists : run_full_analysis(symbols)
  \/ Step2Correlation
  \/ Step3Train
  \/ Step4Backtest
  \/ Step5Advanced
  \/ RunSummary

SpecRunner == Init /\ [][NextRunner]_vars

\* =================================================================== claims
\* the standardization parameters fitted on the training prefix of the usable rows xy
FitOnTrain(xy) ==
  FitScaler(TrainPart(xy.X, SplitIdx(Len(xy.X))), TrainPart(xy.src, SplitIdx(Len(xy.X))))

\* the usable rows predictive_model_comparison(symbol) builds from the panel
ComparisonRows(df) == ComparisonClean(df, ComparisonCols(df))

TrainedOk == ret.op = "train_model" /\ ~ret.raised
BacktestOk == ret.op = "backtest_strategy" /\ ~ret.raised
ComparisonOk == ret.op = "predictive_model_comparison" /\ ~ret.raised

Before(earlier, later) ==
  \A f \in Range(earlier), t \in Range(later) : f < t

\* C1: for every symbol S that holds a trained artifact, the scaler that artifact
\* holds, which backtest_strategy(S) transforms with, carries parameters fitted on
\* S's own training rows; training another symbol does not change it.
C1_ScalerScopedToSymbol ==
  \A S \in SymbolArgs :
    models[S].trained =>
      /\ ScalerOf(models[S], scaler).fitted
      /\ ScalerOf(models[S], scaler).fit_src = models[S].model.fit_src

\* C2: after train_model or predictive_model_comparison returns, the scaler of the
\* call holds exactly the parameters of the training rows, the first split_idx
\* usable rows, and none of the test rows it is applied to is among the rows it was
\* fitted on; so the values of the test rows have no part in the parameters.
C2_ScalerFitOnTrainOnly ==
  /\ TrainedOk =>
       /\ scaler = FitOnTrain(prepare_ml_data(engineered, ret.symbol))
       /\ Range(scaler.fit_src) \cap Range(ret.test_src) = {}
       /\ Len(scaler.fit_src) = ret.split_idx
  /\ ComparisonOk =>
       /\ ret.scaler = FitOnTrain(ComparisonRows(ComparisonFilter(data, ret.symbol)))
       /\ Range(ret.scaler.fit_src) \cap Range(ret.test_src) = {}
       /\ ret.scaler.fit_src = ret.train_src

\* a training call returned with test rows that differ from its training rows
C2_Witness ==
  /\ TrainedOk
  /\ scaler.fitted
  /\ ret.test_src # <<>>
  /\ scaler # FitScaler(prepare_ml_data(engineered, ret.symbol).X,
                        prepare_ml_data(engineered, ret.symbol).src)

\* C4: the frame backtest_strategy(S) returns has exactly the rows, in order and
\* number, that prepare_ml_data(S) built the feature matrix from, all of symbol S,
\* and its i-th probability is the one predicted from the i-th row of the matrix.
C4_BacktestAlignment ==
  BacktestOk =>
    /\ ret.backtest_df.index = prepare_ml_data(engineered, ret.symbol).src
    /\ ret.backtest_df.index = ret.X_src
    /\ Len(Col(ret.backtest_df, "prediction_proba")) = Len(ret.X_src)
    /\ \A i \in 1..NRows(ret.backtest_df) :
         Col(ret.backtest_df, "symbol")[i].v = ret.symbol

\* a backtest returned a frame of several rows from a panel that also holds usable
\* rows of another symbol
C4_Witness ==
  /\ BacktestOk
  /\ NRows(ret.backtest_df) >= 2
  /\ \E i \in 1..NRows(engineered) : Col(engineered, "symbol")[i].v # ret.symbol

\* C5: every row a probability is predicted for, in train_model and in
\* backtest_strategy, lies after every row the predicting model was fitted on.
C5_NoPredictionOnFittedRows ==
  /\ TrainedOk => Before(models[ret.symbol].model.fit_src, ret.test_src)
  /\ BacktestOk => Before(models[ret.symbol].model.fit_src, ret.backtest_df.index)

\* C3: for n usable rows the training set is the first floor(0.7 * n) of them in
\* row order and the test set is the rest: they are disjoint, together they are
\* all n rows, and no training row comes after a test row.
C3_SplitIsFloorOfSeventyPercent ==
  /\ ComparisonOk =>
       /\ Len(ret.train_src) = (7 * (Len(ret.train_src) + Len(ret.test_src))) \div 10
       /\ ret.split_idx = Len(ret.train_src)
       /\ ret.train_src \o ret.test_src
            = ComparisonRows(ComparisonFilter(data, ret.symbol)).src
       /\ Range(ret.train_src) \cap Range(ret.test_src) = {}
       /\ Before(ret.train_src, ret.test_src)
  /\ TrainedOk =>
       /\ ret.split_idx = (7 * (ret.split_idx + Len(ret.test_src))) \div 10
       /\ models[ret.symbol].model.fit_src \o ret.test_src
            = prepare_ml_data(engineered, ret.symbol).src
       /\ Before(models[ret.symbol].model.fit_src, ret.test_src)

\* ---- the backtest frame
Column(c) == Col(ret.backtest_df, c)

Values(s) == [i \in 1..Len(s) |-> s[i].v]

\* the natural number the digits a[i..] write
RECURSIVE NatFrom(_, _)
NatFrom(a, i) == IF i > Len(a) THEN 0 ELSE a[i] + 100 * NatFrom(a, i + 1)

\* the product of 100 + s[i] over the rows 1..k
RECURSIVE GrossTo(_, _)
GrossTo(s, k) == IF k = 0 THEN 1 ELSE GrossTo(s, k - 1) * (100 + s[k].v)

\* the running value cum compounds the returns s at row k, from 1.0 before row 1
Compounds(cum, s, k) ==
  /\ cum[k].v = Times(IF k = 1 THEN <<1>> ELSE cum[k - 1].v, 100 + s[k].v)
  /\ k <= MaxBacktestRows => NatFrom(cum[k].v, 1) = GrossTo(s, k)
  /\ (\A i \in 1..k : s[i].v = 0) => cum[k].v = Pow100(k)

\* C6: at every row k of the backtest frame cumulative_return is the product of
\* 1 + weekly_return_i/100 over the rows i = 1..k and cumulative_strategy the
\* product of 1 + strategy_return_i/100, both starting from 1.0; with all returns
\* 0 the value stays 1.0.
C6_CompoundingIdentity ==
  BacktestOk =>
    \A k \in 1..NRows(ret.backtest_df) :
      /\ Compounds(Column("cumulative_return"), Column("weekly_return"), k)
      /\ Compounds(Column("cumulative_strategy"), Column("strategy_return"), k)

\* a frame of several rows that is long at a gain, in cash at a loss, and so ends
\* with a strategy value unlike its buy-and-hold value
C6_Witness ==
  /\ BacktestOk
  /\ NRows(ret.backtest_df) >= 2
  /\ \E i, j \in 1..NRows(ret.backtest_df) :
       /\ i < j
       /\ Column("weekly_return")[i].v > 0 /\ Column("signal")[i].v = "LONG"
       /\ Column("weekly_return")[j].v < 0 /\ Column("signal")[j].v = "CASH"

\* a value of digits a, less its drop lowest digits, rounded half up
Rounded(a, drop) ==
  NatFrom(a, drop + 1) + (IF drop >= 1 /\ Digit(a, drop) >= 50 THEN 1 ELSE 0)

\* the backtest frame of the scenario: its weekly returns and its signals
ScenarioBacktest ==
  /\ BacktestOk
  /\ Values(Column("weekly_return")) = scenario_returns
  /\ Values(Column("signal")) = <<"LONG", "CASH", "LONG", "CASH", "LONG">>

\* the scenario ends with the strategy value cs and the buy-and-hold value cb, to
\* four decimals, and with the outperformance alpha, in hundredths of a point
ScenarioEnds(totals, cs, cb, alpha) ==
  /\ Values(Column("strategy_return")) = <<2, 0, 3, 0, 1>>
  /\ Rounded(Column("cumulative_strategy")[5].v, 3) = cs
  /\ Rounded(Column("cumulative_return")[5].v, 3) = cb
  /\ ~totals.strategy_return.neg /\ Rounded(totals.strategy_return.digits, 3) = cs - 10000
  /\ ~totals.total_return.neg /\ Rounded(totals.total_return.digits, 3) = cb - 10000
  /\ ~totals.outperformance.neg /\ Rounded(totals.outperformance.digits, 3) = alpha

\* C7: weekly returns [2, -1, 3, -2, 1] with signals [LONG, CASH, LONG, CASH, LONG]
\* give strategy returns [2, 0, 3, 0, 1], a cumulative strategy value of about
\* 1.0611 (6.11%), a buy-and-hold value of about 1.0295 (2.95%) and an alpha of about
\* 3.16 points.
C7_ScenarioTotals ==
  ScenarioBacktest =>
    ScenarioEnds(PlotResults(ret.symbol, ret.backtest_df), 10611, 10295, 316)

\* C7 as stated: a cumulative strategy value of about 1.0615 (6.15%), a buy-and-hold
\* value of about 1.0284 (2.84%) and an alpha of about 3.31 points.
C7_ScenarioTotalsAsStated ==
  ScenarioBacktest =>
    ScenarioEnds(PlotResults(ret.symbol, ret.backtest_df), 10615, 10284, 331)

\* the backtest frame of the scenario was returned
C7_Witness == ScenarioBacktest /\ NRows(ret.backtest_df) = Len(scenario_returns)

\* C8: every backtest row has the signal LONG exactly when its predicted
\* probability is strictly above 0.5 and CASH otherwise; 0.5 itself gives CASH.
C8_SignalRule ==
  BacktestOk =>
    \A i \in 1..NRows(ret.backtest_df) :
      /\ Column("signal")[i].v \in {"LONG", "CASH"}
      /\ Column("signal")[i].v = "LONG" <=> Column("prediction_proba")[i].v > 50
      /\ Column("prediction")[i].v = (IF Column("signal")[i].v = "LONG" THEN 1 ELSE 0)

\* a frame with a row at exactly 0.5, in cash, a row above and a row below
C8_Witness ==
  /\ BacktestOk
  /\ \E i, j, k \in 1..NRows(ret.backtest_df) :
       /\ Column("prediction_proba")[i].v = 50 /\ Column("signal")[i].v = "CASH"
       /\ Column("prediction_proba")[j].v > 50 /\ Column("signal")[j].v = "LONG"
       /\ Column("prediction_proba")[k].v < 50 /\ Column("signal")[k].v = "CASH"

\* C9: on every backtest row strategy_return is the row's weekly_return when the
\* signal is LONG and 0 when it is CASH.
C9_StrategyReturn ==
  BacktestOk =>
    \A i \in 1..NRows(ret.backtest_df) :
      Column("strategy_return")[i]
        = (IF Column("signal")[i].v = "LONG" THEN Column("weekly_return")[i] ELSE Num(0))

\* a frame that is in cash on a row with a nonzero return and long on another
C9_Witness ==
  /\ BacktestOk
  /\ \E i, j \in 1..NRows(ret.backtest_df) :
       /\ Column("signal")[i].v = "CASH" /\ Column("weekly_return")[i].v # 0
       /\ Column("signal")[j].v = "LONG" /\ Column("weekly_return")[j].v # 0

\* ---- lag and velocity features
FeatureFrame(op, panel) ==
  IF op = "add_lag_features" THEN LagFrame(panel) ELSE VelocityFrame(panel)

FeatureOk == ret.op \in {"add_lag_features", "add_velocity_features"} /\ ~ret.raised

\* the columns the call added to the panel
Added(result, panel) == {c \in Range(result.names) : ~HasCol(panel, c)}

\* wherever panel and other agree on the rows 1..i of every column, the features of
\* the two at row i are the same
SameUpTo(panel, result, other, other_result) ==
  \A i \in 1..NRows(panel) :
    (\A c \in Range(panel.names), j \in 1..i : Col(panel, c)[j] = Col(other, c)[j])
      => \A c \in Added(result, panel) : Col(result, c)[i] = Col(other_result, c)[i]

NoLookAheadAgainst(other) ==
  SameUpTo(data, ret.df, other, FeatureFrame(ret.op, other))

\* C10: every lag and velocity feature at row i is decided by the rows <= i of its
\* source column: a panel that agrees with this one on the rows <= i has the same
\* lag and velocity values at row i, whatever its later rows hold.
C10_NoLookAhead ==
  FeatureOk =>
    \A vals \in [FreeRows -> LevelCells] : NoLookAheadAgainst(FeaturePanel(vals))

\* lag features were computed on a panel whose last row departs from the flat level
\* and whose one-week lag at the row a week earlier reads a departing row too
C10_Witness ==
  /\ FeatureOk
  /\ ret.op = "add_lag_features"
  /\ Col(data, "net_liquidity")[FeatureRows] = Num(2)
  /\ Col(ret.df, "net_liquidity_lag_1w")[FeatureRows - 5] = Num(2)
  /\ Col(ret.df, "net_liquidity_lag_4w")[FeatureRows] = NaN

\* ---- features of a multi-symbol panel
\* the position of the row labelled l in df
Loc(df, l) == CHOOSE i \in 1..NRows(df) : df.index[i] = l

\* the row labelled l of the frame df carries, in every column engineer_features
\* added, the value that engineer_features gives that row on the series own alone
FromOwnSeries(df, own, l) ==
  /\ l \in Range(own.index)
  /\ \A c \in Range(df.names) :
       HasCol(own, c) => Col(df, c)[Loc(df, l)] = Col(own, c)[Loc(own, l)]

\* C11: in a panel of several symbols every lag, moving-average, rate-of-change,
\* return and price-volatility value of a row of symbol S that train_model(S) or
\* backtest_strategy(S) consumes is computed from symbol S's own series: it is the
\* value engineer_features gives that row on S's rows alone.
C11_FeaturesFromOwnSymbol ==
  (TrainedOk \/ BacktestOk) =>
    \A l \in Range(prepare_ml_data(engineered, ret.symbol).src) :
      FromOwnSeries(engineered, engineer_features(FilterSymbol(data, ret.symbol)), l)

\* C12: the panel merge_liquidity_and_markets returns has no two rows with the same
\* date, whatever liquidity frame and market frame it is given.
C12_DatesUnique ==
  (ret.op = "merge_liquidity_and_markets" /\ ~ret.raised) =>
    \A i, j \in 1..NRows(ret.df) :
      Col(ret.df, "date")[i] = Col(ret.df, "date")[j] => i = j

\* C13: on a net_liquidity column with at least 4 distinct values regime_analysis
\* completes and puts every row in exactly one of the 4 labels, the 4 groups of
\* equal size to within rounding.
C13_QuartileRegimes ==
  (/\ ret.op = "regime_analysis"
   /\ Cardinality(Range(Defined(Col(data, "net_liquidity")))) >= 4) =>
    /\ ~ret.raised
    /\ \A i \in 1..NRows(data) :
         ret.liq_regime[i].ok /\ ret.liq_regime[i].v \in Range(regime_labels)
    /\ \A j, k \in 1..Len(regime_labels) : ret.sizes[j] - ret.sizes[k] <= 1

\* ---- correlation rankings
RankingOps ==
  {"analyze_correlations", "analyze_lagged_correlations",
   "analyze_regime_correlations", "analyze_multiple_timeframes"}

RankingOk == ret.op \in RankingOps /\ ~ret.raised

\* the floor of each ranking, as the claims give it
FloorOf(op) ==
  IF op = "analyze_correlations" THEN 10
  ELSE IF op = "analyze_regime_correlations" THEN 20
  ELSE 30

\* the frame the call reads its features from
AnalysedFrame(op, self_data) ==
  IF op = "analyze_correlations" THEN self_data ELSE VelocityFrame(self_data)

\* the feature columns of the call, in the order it goes through them
Candidates(op, df) ==
  IF op = "analyze_correlations" THEN CoarseCols(df)
  ELSE IF op = "analyze_lagged_correlations" THEN LaggedCols(df, "weekly_return")
  ELSE ConditionedCols(df)

\* the keys the call can return a ranking under
KeysOf(op, df) ==
  IF op = "analyze_regime_correlations"
  THEN (IF HasCol(df, "regime") THEN Range(regimes) ELSE {})
  ELSE IF op = "analyze_multiple_timeframes"
  THEN Range(return_cols) \cap Range(df.names)
  ELSE {"report"}

TargetOf(op, key) == IF op = "analyze_multiple_timeframes" THEN key ELSE "weekly_return"

\* the rows the ranking under key is made on
PartOf(op, df, key) == IF op = "analyze_regime_correlations" THEN RegimeRows(df, key) ELSE df

\* the rows of part on which both the feature c and the target are defined
Observations(part, c, target) == Len(Overlap(Col(part, c), Col(part, target)))

\* the feature c has a row in the ranking returned under key
Listed(key, c) ==
  /\ key \in DOMAIN ret.tables
  /\ \E i \in 1..Len(ret.tables[key]) : ret.tables[key][i].Feature = c

\* every feature listed under a key has at least floor observations in df
FloorKept(op, df, floor) ==
  \A key \in DOMAIN ret.tables :
    \A i \in 1..Len(ret.tables[key]) :
      /\ ret.tables[key][i].rows >= floor
      /\ Observations(PartOf(op, df, key), ret.tables[key][i].Feature, TargetOf(op, key))
           >= floor

\* C14: a feature with fewer rows holding both the feature and the target return
\* than the ranking's floor (10 for analyze_correlations, 30 for
\* analyze_lagged_correlations and analyze_multiple_timeframes, 20 for
\* analyze_regime_correlations) is in no ranking the call returns.
C14_BelowFloorExcluded ==
  RankingOk => FloorKept(ret.op, AnalysedFrame(ret.op, data), FloorOf(ret.op))

\* the coarse ranking lists net_liquidity and leaves out tga_value, which has 8
\* observations
C14_Witness ==
  /\ ret.op = "analyze_correlations"
  /\ Observations(data, "tga_value", "weekly_return") = 8
  /\ Pearson(Col(data, "tga_value"), Col(data, "weekly_return"),
             Overlap(Col(data, "tga_value"), Col(data, "weekly_return"))).ok
  /\ Listed("report", "net_liquidity")
  /\ ~Listed("report", "tga_value")

\* a feature of df with a finite correlation and at least floor observations is
\* listed, under every key the call ranks
FloorSuffices(op, df, floor) ==
  \A key \in KeysOf(op, df) : \A c \in Range(Candidates(op, df)) :
    (/\ Observations(PartOf(op, df, key), c, TargetOf(op, key)) >= floor
     /\ Pearson(Col(PartOf(op, df, key), c), Col(PartOf(op, df, key), TargetOf(op, key)),
                Overlap(Col(PartOf(op, df, key), c),
                        Col(PartOf(op, df, key), TargetOf(op, key)))).ok)
      => Listed(key, c)

\* C15: a candidate feature with a finite correlation is in the ranking when it has
\* at least the minimum of observations: exactly 30 suffice for the lag/velocity
\* ranking, exactly 20 for the regime-conditioned one, exactly 10 for the coarse one.
C15_FloorSuffices ==
  RankingOk => FloorSuffices(ret.op, AnalysedFrame(ret.op, data), FloorOf(ret.op))

\* every listed correlation is finite, and is that of a feature that varies on the
\* rows it was computed from
AllFinite(op, df) ==
  \A key \in DOMAIN ret.tables :
    \A i \in 1..Len(ret.tables[key]) :
      /\ ret.tables[key][i].Correlation.ok
      /\ ret.tables[key][i].Correlation.vx > 0
      /\ \E j, k \in 1..NRows(PartOf(op, df, key)) :
           /\ Col(PartOf(op, df, key), ret.tables[key][i].Feature)[j].ok
           /\ Col(PartOf(op, df, key), ret.tables[key][i].Feature)[k].ok
           /\ Col(PartOf(op, df, key), ret.tables[key][i].Feature)[j]
                # Col(PartOf(op, df, key), ret.tables[key][i].Feature)[k]

\* C16: a feature whose correlation with the target is undefined (a constant
\* column) is in no ranked output and computing it raises nothing: every row of
\* every returned ranking has a finite Correlation.
C16_NonFiniteExcluded ==
  ret.op \in RankingOps =>
    /\ ~ret.raised
    /\ AllFinite(ret.op, AnalysedFrame(ret.op, data))

\* the coarse ranking of a panel of more than 10 rows whose net_liquidity is 10 on
\* every row lists tga_value and not net_liquidity
C16_Witness ==
  /\ ret.op = "analyze_correlations"
  /\ NRows(data) > 10
  /\ \A i \in 1..NRows(data) : Col(data, "net_liquidity")[i] = Num(10)
  /\ Listed("report", "tga_value")
  /\ ~Listed("report", "net_liquidity")

\* the place of the feature c in the order cols
Place(cols, c) == CHOOSE i \in 1..Len(cols) : cols[i] = c

\* the table is in non-increasing absolute correlation, equal ones in the order cols
Ordered(table, cols) ==
  \A i, j \in 1..Len(table) :
    i < j =>
      /\ ~AbsLess(table[i].Abs_Correlation, table[j].Abs_Correlation)
      /\ ~AbsLess(table[j].Abs_Correlation, table[i].Abs_Correlation)
           => Place(cols, table[i].Feature) < Place(cols, table[j].Feature)

AllOrdered(cols) == \A key \in DOMAIN ret.tables : Ordered(ret.tables[key], cols)

\* C17: every returned ranking is in non-increasing absolute correlation, and
\* features of equal absolute correlation are in the order in which the feature
\* columns were gone through.
C17_SortedStable ==
  RankingOk => AllOrdered(Candidates(ret.op, AnalysedFrame(ret.op, data)))

\* the tables a ranking call returns on an analyzer holding self_data
TablesOf(op, self_data, ties) ==
  IF op = "analyze_correlations" THEN [k \in {"report"} |-> CoarseReport(self_data, ties)]
  ELSE IF op = "analyze_lagged_correlations"
  THEN [k \in {"report"} |-> LaggedReport(LaggedFrame(self_data), "weekly_return", ties)]
  ELSE IF op = "analyze_regime_correlations"
  THEN RegimeTables(RegimeFrame(self_data), ties)
  ELSE TimeframeTables(TimeframeFrame(self_data), ties)

\* C18: a ranking call made again on the same analyzer, with any other analysis
\* calls in between, returns the identical ordered table: no call changes what the
\* analyzer holds, and each ranking call returns the table that the same call
\* returns in the state it leaves.
C18_RankingIdempotent ==
  [][/\ data' = data
     /\ tie_order' = tie_order
     /\ (ret'.op \in RankingOps /\ ~ret'.raised)
          => ret'.tables = TablesOf(ret'.op, data', tie_order')]_vars

\* a ranking call made right after the same call returned a ranking of several
\* features
C18_Witness ==
  /\ RankingOk
  /\ ret.again
  /\ \E key \in DOMAIN ret.tables : Len(ret.tables[key]) >= 2

\* the frame of identify_market_regime with the velocity features
LabelledFrame(self_data) ==
  AddCols(MarketRegimeFrame(self_data), Velocities(self_data, VelocitySources(self_data)))

\* some feature of the rows of regime has a ranking entry to give
HasRanking(df, regime) ==
  Correlations(RegimeRows(df, regime), ConditionedCols(df), "weekly_return", 20) # <<>>

\* the regimes with a ranking to give are the keys returned, each with the ranking of
\* its own rows
RankedByRegime(df, ties) ==
  /\ DOMAIN ret.tables = {g \in Range(regimes) : HasRanking(df, g)}
  /\ \A g \in DOMAIN ret.tables :
       ret.tables[g] = Ranking(RegimeRows(df, g), ConditionedCols(df), "weekly_return", 20, ties)

\* C19: on a panel with close and weekly_return columns analyze_regime_correlations
\* labels the rows by market regime and returns, for each regime that has a feature
\* with enough rows, the ranking made on that regime's rows alone; the result is not
\* empty when some regime has such a feature.
C19_RankedByRegime ==
  (/\ ret.op = "analyze_regime_correlations"
   /\ HasCol(data, "close") /\ HasCol(data, "weekly_return")) =>
    /\ ~ret.raised
    /\ RankedByRegime(LabelledFrame(data), tie_order)

\* the frame of add_multiple_return_periods with the velocity features
HorizonFrame(self_data) ==
  AddCols(ReturnPeriodsFrame(self_data), Velocities(self_data, VelocitySources(self_data)))

\* every horizon column of df that has a ranking entry to give is a key returned
RankedByHorizon(df) ==
  \A h \in Range(return_cols) \cap Range(df.names) :
    Correlations(df, ConditionedCols(df), h, 30) # <<>> => h \in DOMAIN ret.tables

\* C20: on a panel with close and weekly_return columns and enough rows
\* analyze_multiple_timeframes ranks once per return horizon column (weekly_return,
\* return_2w, return_1m, return_3m) over the same features: the result has a ranking
\* for each horizon add_multiple_return_periods added.
C20_RankedByHorizon ==
  (/\ ret.op = "analyze_multiple_timeframes"
   /\ HasCol(data, "close") /\ HasCol(data, "weekly_return")) =>
    /\ ~ret.raised
    /\ RankedByHorizon(HorizonFrame(data))


\* the frame with the columns of add_lag_features and those of add_velocity_features
LagVelocityFrame(self_data) ==
  AddCols(LagFrame(self_data), Velocities(self_data, VelocitySources(self_data)))

\* the columns add_lag_features adds to self_data
LagColumns(self_data) ==
  {c \in Range(LagFrame(self_data).names) : ~HasCol(self_data, c)}

\* every lag column of df with more than 30 observations and a finite correlation is
\* in the lagged ranking
LagsRanked(df, lags) ==
  \A c \in lags :
    (/\ Observations(df, c, "weekly_return") > 30
     /\ Pearson(Col(df, c), Col(df, "weekly_return"),
                Overlap(Col(df, c), Col(df, "weekly_return"))).ok)
      => Listed("report", c)

\* C21: the features analyze_lagged_correlations ranks include the lag columns of
\* add_lag_features as well as the velocity columns of add_velocity_features: a lag
\* column with enough observations and a finite correlation has a row in the ranking.
C21_LagColumnsRanked ==
  (ret.op = "analyze_lagged_correlations" /\ ~ret.raised) =>
    LagsRanked(LagVelocityFrame(data), LagColumns(data))


\* ---- market regimes
\* the label of row i is that of its close against the mean of the 200 closes up to
\* it, and there is none before row 200
LabelledBySma(close, regime) ==
  \A i \in 1..Len(close) :
    IF i < 200 THEN ~regime[i].ok
    ELSE WindowOk(close, i, 200) =>
           regime[i] = Num(IF 200 * close[i].v > SumV(close, i - 199, i)
                           THEN "BULL" ELSE "BEAR")

\* C22: identify_market_regime labels a row BULL when close is strictly above the
\* 200-row trailing mean of close and BEAR otherwise, and the first 199 rows, which
\* have fewer than 200 observations, get no regime label.
C22_RegimeBySma ==
  (ret.op = "identify_market_regime" /\ HasCol(data, "close")) =>
    /\ ~ret.raised
    /\ HasCol(ret.df, "regime")
    /\ LabelledBySma(Col(data, "close"), Col(ret.df, "regime"))

\* the bucket of a momentum of m percent
MomentumBucket(m) ==
  IF m < -10 THEN "BEAR" ELSE IF m <= 10 THEN "NEUTRAL" ELSE "BULL"

\* a row whose padded close is a whole number of percents from that of 50 rows
\* before has the bucket of that momentum
BucketedByMomentum(close, bucket) ==
  \A i \in 51..Len(close) :
    (/\ close[i].ok /\ close[i - 50].ok /\ close[i - 50].v > 0
     /\ (100 * (close[i].v - close[i - 50].v)) % close[i - 50].v = 0)
      => bucket[i] =
           Num(MomentumBucket((100 * (close[i].v - close[i - 50].v)) \div close[i - 50].v))

\* C23: the momentum regime is BEAR when the 50-row momentum percentage m is below
\* -10, NEUTRAL when -10 <= m <= 10, both ends included, and BULL when m > 10; every
\* row with a defined momentum has exactly one of the three.
C23_MomentumBuckets ==
  (ret.op = "identify_market_regime" /\ HasCol(data, "close")) =>
    /\ HasCol(ret.df, "regime_momentum")
    /\ \A i \in 1..NRows(data) :
         Col(ret.df, "momentum_50")[i].ok =>
           Col(ret.df, "regime_momentum")[i] \in {Num("BEAR"), Num("NEUTRAL"), Num("BULL")}
    /\ BucketedByMomentum(Ffill(Col(data, "close")), Col(ret.df, "regime_momentum"))

\* C27: without a close column add_multiple_return_periods and
\* identify_market_regime raise nothing and return the panel as it is held: no
\* return_2w, return_1m, return_3m, sma_200, regime, momentum_50 or regime_momentum
\* column is added from another column.
C27_NoCloseNoFeature ==
  (/\ ret.op \in {"add_multiple_return_periods", "identify_market_regime"}
   /\ ~HasCol(data, "close")) =>
    /\ ~ret.raised
    /\ ret.df = data

\* add_multiple_return_periods returned on a panel of more than 50 rows that has
\* level and return columns and no close
C27_Witness ==
  /\ ret.op = "add_multiple_return_periods"
  /\ ~HasCol(data, "close")
  /\ HasCol(data, "net_liquidity") /\ HasCol(data, "weekly_return")
  /\ NRows(data) > 50


\* ---- lag features
LagName(c, lag) == c \o "_lag_" \o ToString(lag) \o "w"

\* the column lagged holds the column source lag * 5 rows later, and nothing on its
\* first lag * 5 rows
LaggedBy(source, lagged, lag) ==
  /\ Len(lagged) = Len(source)
  /\ \A i \in 1..Len(source) :
       IF i <= lag * 5 THEN ~lagged[i].ok ELSE lagged[i] = source[i - lag * 5]

\* df has the rows and the columns of self_data, with their values
KeepsPanel(self_data, df) ==
  /\ df.index = self_data.index
  /\ \A c \in Range(self_data.names) : HasCol(df, c) /\ Col(df, c) = Col(self_data, c)

\* C24: for each liquidity level column and each lag in weeks add_lag_features adds
\* a column whose value at row i is the source column's value at row i - lag*5 and
\* whose first lag*5 rows are undefined; the original rows and columns are returned
\* unchanged.
C24_LagShift ==
  ret.op = "add_lag_features" =>
    /\ ~ret.raised
    /\ KeepsPanel(data, ret.df)
    /\ "net_liquidity" \in Range(LagSources(data))
    /\ \A c \in Range(LagSources(data)) : \A k \in 1..Len(lag_weeks) :
         /\ HasCol(ret.df, LagName(c, lag_weeks[k]))
         /\ LaggedBy(Col(data, c), Col(ret.df, LagName(c, lag_weeks[k])), lag_weeks[k])

\* add_lag_features returned on a panel whose net_liquidity differs between rows 1
\* and 21, row 21 of the four-week lag holding the value of row 1
C24_Witness ==
  /\ ret.op = "add_lag_features"
  /\ Col(data, "net_liquidity")[1].ok
  /\ Col(data, "net_liquidity")[1] # Col(data, "net_liquidity")[21]
  /\ Col(ret.df, "net_liquidity_lag_4w")[21] = Col(data, "net_liquidity")[1]


\* ---- failures of train_model
\* min_samples_split of the forest: the fewest rows a node must hold to be split, so
\* a forest fitted on fewer rows is one leaf
min_samples_split == 50

\* C25: train_model(S) fails, and registers no model for S, when the training set
\* has too few usable rows or the target cannot be derived; it never returns a result
\* from a degenerate fit: a call that returns has fitted the forest on rows of both
\* classes, and on enough of them for a tree to split.
C25_InsufficientDataFails ==
  TrainedOk =>
    /\ models[ret.symbol].trained
    /\ models[ret.symbol].model.classes = {0, 1}
    /\ ret.split_idx >= min_samples_split

\* C30: a train_model(T) call that raises leaves the artifacts trained before as they
\* were: models is unchanged, T is not added, and the scaler parameters the stored
\* models use are those they had before the call.
C30_FailedTrainKeepsArtifacts ==
  [][(ret'.op = "train_model" /\ ret'.raised) =>
       (/\ models' = models
        /\ ((\E s \in SymbolArgs : models[s].trained) => scaler' = scaler))]_vars


\* ---- the stored panel
\* C28: every feature-engineering and analysis call (add_lag_features,
\* add_velocity_features, add_multiple_return_periods, identify_market_regime,
\* engineer_features, analyze_correlations, the analyze_*_correlations calls,
\* regime_analysis, flow_dynamics_analysis, statistical_tests) leaves the analyzer's
\* stored panel as it was: the same rows, columns and values, over any sequence of
\* calls.
C28_PanelUnchanged ==
  [][/\ data'.names = data.names
     /\ data'.index = data.index
     /\ data'.cols = data.cols]_vars

\* a call returned a frame with columns the stored panel does not have
C28_Witness ==
  /\ ret.op \in {"add_lag_features", "add_velocity_features", "identify_market_regime",
                 "add_multiple_return_periods", "engineer_features"}
  /\ \E c \in Range(ret.df.names) : ~HasCol(data, c)


\* ---- the batch run
\* the symbols of the list that are in the set kept, in list order
RECURSIVE Kept(_, _)
Kept(symbols, kept) ==
  IF symbols = <<>> THEN <<>>
  ELSE (IF Head(symbols) \in kept THEN <<Head(symbols)>> ELSE <<>>)
       \o Kept(Tail(symbols), kept)

\* the run is over with every symbol's training attempted, every trained symbol's
\* backtest started, the advanced step reached and the summary printed
BatchComplete ==
  /\ run.pc = "done"
  /\ run.attempted = run.symbols
  /\ run.backtested = Kept(run.symbols, run.model_results)
  /\ run.advanced

\* the run is where the passes made so far lead, none skipped and none ending it:
\* in a loop, on its next symbol with every earlier one gone through; past a loop,
\* with the whole list gone through
BatchOnCourse ==
  /\ run.pc \in {"step3", "step4", "step5", "summary", "done"}
  /\ run.pc \in {"step3", "step4"} => run.i \in 1..Len(run.symbols)
  /\ run.attempted = IF run.pc = "step3" THEN SubSeq(run.symbols, 1, run.i - 1)
                     ELSE run.symbols
  /\ run.backtested =
       IF run.pc = "step3" THEN <<>>
       ELSE IF run.pc = "step4"
       THEN Kept(SubSeq(run.symbols, 1, run.i - 1), run.model_results)
       ELSE Kept(run.symbols, run.model_results)
  /\ run.advanced = (run.pc \in {"summary", "done"})

\* C26: in run_full_analysis a failure while training or backtesting one symbol does
\* not abort the batch: training is still attempted for every later symbol,
\* backtesting for every later trained symbol, and the advanced-analysis step and
\* the final summary are still reached.  After a failure the run is never ended by
\* it and goes on through the steps in order, every pass of the loops made.
C26_BatchContinues ==
  (run.pc # "none" /\ run.train_failed \cup run.backtest_failed # {}) => BatchOnCourse

\* the run is over, on a bound analyzer: the training of the first symbol failed and
\* the second symbol was trained and backtested after it
C26_Witness ==
  /\ BatchComplete
  /\ run.analyzer
  /\ Len(run.symbols) = 2
  /\ run.symbols[1] \in run.train_failed
  /\ run.symbols[2] \in run.model_results
  /\ run.backtested = <<run.symbols[2]>>

\* train_model(symbol) on a newly made analyzer returns a result
Sufficient(symbol) ==
  \A leaf \in Probas :
    ~TrainModel(Unfitted, [s \in SymbolArgs |-> NoModel], symbol, "rf", leaf,
                prepare_ml_data(engineered, symbol)).ret.raised

\* C29: in run_full_analysis, when a merged panel is available and step 2 completes
\* without error, step 3 trains a model for every requested symbol that has
\* sufficient data and step 4 backtests each of them.
C29_TrainsOnNormalPath ==
  (run.pc \in {"step5", "summary", "done"} /\ run.step2_ok) =>
    \A symbol \in Range(run.symbols) :
      Sufficient(symbol) =>
        /\ symbol \in run.model_results
        /\ models[symbol].trained
        /\ symbol \in Range(run.backtested)

====
